---------------------------- MODULE Spec2Model ----------------------------
(***************************************************************************)
(* A model of discord-mcp (src/index.js): the configuration tables, the    *)
(* readiness gate, the server / channel / user resolvers and the tool      *)
(* dispatcher with its reply envelope.                                     *)
(*                                                                         *)
(* A JavaScript string is a sequence of characters; a character is a       *)
(* one-element TLA+ string.  The character "sz" stands for U+00DF (sharp   *)
(* s), whose upper-casing is the two characters "SS", and "BACKTICK" for   *)
(* the grave accent of a code fence.                                       *)
(***************************************************************************)
EXTENDS Integers, Sequences, FiniteSets, TLC

\* ------------------------------------------------------------ strings

\* The value of an argument, variable or property that is not there.
undefined == <<"undefined">>

lowerLetters == <<"a", "b", "c", "d", "e", "f", "g", "h", "i", "j", "k", "l", "m",
                  "n", "o", "p", "q", "r", "s", "t", "u", "v", "w", "x", "y", "z">>
upperLetters == <<"A", "B", "C", "D", "E", "F", "G", "H", "I", "J", "K", "L", "M",
                  "N", "O", "P", "Q", "R", "S", "T", "U", "V", "W", "X", "Y", "Z">>
digits == {"0", "1", "2", "3", "4", "5", "6", "7", "8", "9"}

RECURSIVE Flatten(_)
Flatten(ss) == IF ss = <<>> THEN <<>> ELSE Head(ss) \o Flatten(Tail(ss))

IndexIn(c, letters) ==
    IF \E k \in DOMAIN letters : letters[k] = c
    THEN CHOOSE k \in DOMAIN letters : letters[k] = c
    ELSE 0

\* String.prototype.toLowerCase, character by character.
lowerChar(c) ==
    IF IndexIn(c, upperLetters) # 0 THEN <<lowerLetters[IndexIn(c, upperLetters)]>>
    ELSE <<c>>

toLowerCase(s) == Flatten([k \in DOMAIN s |-> lowerChar(s[k])])

\* String.prototype.toUpperCase: U+00DF has no single upper-case character.
upperChar(c) ==
    IF IndexIn(c, lowerLetters) # 0 THEN <<upperLetters[IndexIn(c, lowerLetters)]>>
    ELSE IF c = "sz" THEN <<"S", "S">>
    ELSE <<c>>

toUpperCase(s) == Flatten([k \in DOMAIN s |-> upperChar(s[k])])

\* /^\d+$/.test(s)
isDigits(s) == Len(s) >= 1 /\ \A k \in DOMAIN s : s[k] \in digits

\* A value in a condition: undefined and the empty string are falsy.
truthy(v) == v # undefined /\ v # <<>>

\* Array.prototype.join over strings.
RECURSIVE join(_, _)
join(ss, sep) ==
    IF ss = <<>> THEN <<>>
    ELSE IF Len(ss) = 1 THEN ss[1]
    ELSE ss[1] \o sep \o join(Tail(ss), sep)

\* String.prototype.includes
includes(s, t) ==
    \E k \in 0..(Len(s) - Len(t)) : SubSeq(s, k + 1, k + Len(t)) = t

\* -------------------------------------------------------- JS objects

\* A plain object: its own string-keyed properties, as <<key, value>> pairs in
\* creation order.
Obj(props) == [type |-> "object", props |-> props]

\* The value null, which has no property: reading one of it throws.
null == [type |-> "null", props |-> <<>>]

\* What every plain object inherits from Object.prototype under a lower-case
\* name: the constructor function, and the prototype itself as __proto__.
protoKey == <<"_", "_", "p", "r", "o", "t", "o", "_", "_">>
constructorKey == <<"c", "o", "n", "s", "t", "r", "u", "c", "t", "o", "r">>
ObjectPrototype == <<"[object Object]">>
ObjectFunction == <<"function Object() { [native code] }">>

OwnIndex(o, k) ==
    IF \E n \in DOMAIN o.props : o.props[n][1] = k
    THEN CHOOSE n \in DOMAIN o.props : o.props[n][1] = k
    ELSE 0

\* o[k] for a string k.
ObjGet(o, k) ==
    IF k = protoKey THEN ObjectPrototype
    ELSE IF OwnIndex(o, k) # 0 THEN o.props[OwnIndex(o, k)][2]
    ELSE IF k = constructorKey THEN ObjectFunction
    ELSE undefined

\* o[k] = v with an assignment to __proto__ that empties the object.
ObjSet_protoResets(o, k, v) ==
    IF k = protoKey THEN [o EXCEPT !.props = <<>>]
    ELSE IF OwnIndex(o, k) # 0
    THEN [o EXCEPT !.props[OwnIndex(o, k)] = <<k, v>>]
    ELSE [o EXCEPT !.props = Append(@, <<k, v>>)]

\* o[k] = v: the __proto__ setter ignores a value that is no object; an own
\* property keeps its place, a new one is created last.
ObjSet(o, k, v) ==
    IF k = protoKey THEN o
    ELSE IF OwnIndex(o, k) # 0
    THEN [o EXCEPT !.props[OwnIndex(o, k)] = <<k, v>>]
    ELSE [o EXCEPT !.props = Append(@, <<k, v>>)]

digitSeq == <<"0", "1", "2", "3", "4", "5", "6", "7", "8", "9">>

\* a < b for digit strings of the same length.
RECURSIVE lexLess(_, _)
lexLess(a, b) ==
    IF a = <<>> THEN FALSE
    ELSE IF a[1] # b[1] THEN IndexIn(a[1], digitSeq) < IndexIn(b[1], digitSeq)
    ELSE lexLess(Tail(a), Tail(b))

\* a < b for canonical numeric strings.
numericLess(a, b) == Len(a) < Len(b) \/ (Len(a) = Len(b) /\ lexLess(a, b))

\* 2^32 - 1
maxArrayLength == <<"4", "2", "9", "4", "9", "6", "7", "2", "9", "5">>

\* An array index: a canonical numeric string below 2^32 - 1.
isArrayIndex(k) ==
    /\ isDigits(k)
    /\ (Len(k) = 1 \/ k[1] # "0")
    /\ numericLess(k, maxArrayLength)

RECURSIVE ascending(_)
ascending(ks) ==
    IF ks = {} THEN <<>>
    ELSE LET m == CHOOSE a \in ks : \A b \in ks : a = b \/ numericLess(a, b)
         IN <<m>> \o ascending(ks \ {m})

SelectSeqKeys(o, wantIndex) ==
    LET ks == [n \in DOMAIN o.props |-> o.props[n][1]]
        keep(k) == isArrayIndex(k) = wantIndex
    IN SelectSeq(ks, keep)

\* Object.keys(o): array-index keys in ascending numeric order, then the other
\* keys in creation order.
ObjectKeys(o) ==
    LET idx == SelectSeqKeys(o, TRUE)
    IN ascending({idx[n] : n \in DOMAIN idx}) \o SelectSeqKeys(o, FALSE)

\* Object.entries(o)
ObjectEntries(o) ==
    LET ks == ObjectKeys(o) IN [n \in DOMAIN ks |-> <<ks[n], ObjGet(o, ks[n])>>]

\* ----------------------------------------------------- configuration

\* The text of a JSON environment variable: whether JSON.parse accepts it and,
\* if so, the value it yields.
JsonText(text, parses, value) == [text |-> text, parses |-> parses, value |-> value]
emptyObjectText == JsonText("{}", TRUE, Obj(<<>>))
\* A variable that is not set (or set to the empty text).
unset == JsonText("", FALSE, Obj(<<>>))

personal == <<"p", "e", "r", "s", "o", "n", "a", "l">>
default == <<"d", "e", "f", "a", "u", "l", "t">>

\* JSON.parse(payload || "{}") inside try / catch { {} }
parseOrEmpty(payload) ==
    LET text == IF payload.text # "" THEN payload ELSE emptyObjectText
    IN IF text.parses THEN text.value ELSE Obj(<<>>)

\* GUILDS after lines 25-36: the parsed map, with the legacy single guild
\* folded in under "default" when the map has no key.
loadGUILDS(env) ==
    LET parsed == parseOrEmpty(env.DISCORD_GUILDS)
    IN IF truthy(env.DISCORD_GUILD_ID) /\ Len(ObjectKeys(parsed)) = 0
       THEN ObjSet(parsed, default, env.DISCORD_GUILD_ID)
       ELSE parsed

\* DEFAULT_GUILD_ALIAS
loadDEFAULT_GUILD_ALIAS(G) ==
    IF truthy(ObjGet(G, personal)) THEN personal
    ELSE IF Len(ObjectKeys(G)) > 0 /\ truthy(ObjectKeys(G)[1]) THEN ObjectKeys(G)[1]
    ELSE default

\* USER_MAPPINGS
loadUSER_MAPPINGS(env) == parseOrEmpty(env.DISCORD_USER_MAPPINGS)

\* DEFAULT_CHANNEL_ID = process.env.DISCORD_DEFAULT_CHANNEL_ID || null
loadDEFAULT_CHANNEL_ID(env) ==
    IF truthy(env.DISCORD_DEFAULT_CHANNEL_ID) THEN env.DISCORD_DEFAULT_CHANNEL_ID
    ELSE undefined

\* -------------------------------------------------------------- state

VARIABLES
    processEnv,           \* process.env, as the module read it
    loadError,            \* the exception that ended the module load, if any
    loginFailed,          \* discord.login() rejected (line 71-73)
    GUILDS,               \* alias -> guild ID
    DEFAULT_GUILD_ALIAS,
    DEFAULT_CHANNEL_ID,   \* undefined when none is configured
    USER_MAPPINGS,        \* name -> user ID
    discordReady,
    guilds,               \* discord.guilds.cache, each guild with its channels.cache
    now,                  \* Date.now(), in ms since startup
    calls,                \* the CallTool handler invocations, by request
    ops                   \* the remote operations the running invocations issued

config == <<processEnv, loadError, GUILDS, DEFAULT_GUILD_ALIAS, DEFAULT_CHANNEL_ID>>
vars == <<processEnv, loadError, loginFailed, GUILDS, DEFAULT_GUILD_ALIAS, DEFAULT_CHANNEL_ID,
          USER_MAPPINGS, discordReady, guilds, now, calls, ops>>

\* ------------------------------------------------- discord.js caches

\* Collection.get(key): the place of the entry with that key, 0 when absent.
\* A key that is no string (an inherited property value) matches nothing.
cacheGet(cache, id) ==
    IF \E n \in DOMAIN cache : cache[n].id = id
    THEN CHOOSE n \in DOMAIN cache : cache[n].id = id
    ELSE 0

\* Collection.find(fn): the first entry, in cache order, that fn accepts, 0
\* when it accepts none; accepted is the set of the places fn accepts.
cacheFind(accepted) ==
    IF accepted = {} THEN 0
    ELSE CHOOSE n \in accepted : \A m \in accepted : n <= m

\* ---------------------------------------------------------- resolvers

\* new Error(message), thrown at line at of the source: the template of the
\* message and the values interpolated into it.
Error(at, tpl, vals) == [at |-> at, tpl |-> tpl, vals |-> vals]
noError == Error(0, "", <<>>)
Ok(v) == [ok |-> TRUE, value |-> v]
Thrown(e) == [ok |-> FALSE, error |-> e]

\* The alias as given, looked up without lower-casing it.
aliasLower_asGiven(serverAlias) == serverAlias

\* const aliasLower = serverAlias.toLowerCase()
aliasLower(serverAlias) == toLowerCase(serverAlias)

\* The error of line 122 without the list of the aliases.
serverNotFound_noList(serverAlias) ==
    Error(122, "Server \"${serverAlias}\" not found.", <<serverAlias>>)

\* The error of line 122: the alias given, then the aliases of GUILDS.
serverNotFound(serverAlias) ==
    Error(122, "Server \"${serverAlias}\" not found. Available: ${Object.keys(GUILDS).join(\", \")}",
          <<serverAlias, join(ObjectKeys(GUILDS), <<",", " ">>)>>)

\* resolveGuild(serverAlias): the place of the guild in discord.guilds.cache.
resolveGuild(serverAlias) ==
    IF ~truthy(serverAlias)
    THEN LET guildId == ObjGet(GUILDS, DEFAULT_GUILD_ALIAS)
             guild == cacheGet(guilds, guildId)
         IN IF guild # 0 THEN Ok(guild)
            ELSE Thrown(Error(96, "Default guild \"${DEFAULT_GUILD_ALIAS}\" (${guildId}) not found",
                              <<DEFAULT_GUILD_ALIAS, guildId>>))
    ELSE
    LET guildId == ObjGet(GUILDS, aliasLower(serverAlias))
        byId == IF isDigits(serverAlias) THEN cacheGet(guilds, serverAlias) ELSE 0
        byName == cacheFind({n \in DOMAIN guilds :
                                toLowerCase(guilds[n].name) = aliasLower(serverAlias)})
    IN IF truthy(guildId)
       THEN IF cacheGet(guilds, guildId) # 0 THEN Ok(cacheGet(guilds, guildId))
            ELSE Thrown(Error(107, "Guild alias \"${serverAlias}\" (${guildId}) not found",
                              <<serverAlias, guildId>>))
       ELSE IF byId # 0 THEN Ok(byId)
       ELSE IF byName # 0 THEN Ok(byName)
       ELSE Thrown(serverNotFound(serverAlias))

\* One phase of resolveChannel: by ID, then by name among text-based channels.
channelLookup(channelIdOrName, cache) ==
    LET stripped == IF Len(channelIdOrName) >= 1 /\ channelIdOrName[1] = "#"
                    THEN Tail(channelIdOrName) ELSE channelIdOrName
        cleanName == toLowerCase(stripped)
    IN IF cacheGet(cache, channelIdOrName) # 0 THEN cacheGet(cache, channelIdOrName)
       ELSE cacheFind({n \in DOMAIN cache :
                          toLowerCase(cache[n].name) = cleanName /\ cache[n].isTextBased})

\* ------------------------------------------------ program constants

timeoutMs == 15000          \* waitForDiscord(timeoutMs = 15000)
pollIntervalMs == 200       \* setTimeout(check, 200)
MESSAGE_LENGTH_LIMIT == 2000    \* msg.length <= 2000
CHUNK_LENGTH == 2000            \* /[\s\S]{1,2000}/g
CODE_LENGTH_LIMIT_inclusive == 2000 - 1   \* fullMessage.length >= 2000
CODE_LENGTH_LIMIT == 2000       \* fullMessage.length > 2000
MEMBER_QUERY_LIMIT == 5         \* members.fetch({ query, limit: 5 })
MEMBERS_DEFAULT_LIMIT == 50     \* args.limit || 50
MEMBERS_MAX_LIMIT == 100        \* Math.min(..., 100)
MESSAGES_DEFAULT_LIMIT == 10    \* args.limit || 10
MESSAGES_MAX_LIMIT == 50        \* Math.min(..., 50)

\* ------------------------------------------------------- invocations

\* The requests the transport may have in flight.
CallIds == {1, 2}

\* args.<name> of a request; a property the caller left out is undefined.
\* args.limit is a number: [n |-> k], or noLimit when it is left out.
noLimit == [absent |-> TRUE]
noArgs == [channel |-> undefined, server |-> undefined, message |-> undefined,
           code |-> undefined, language |-> undefined, title |-> undefined,
           file_path |-> undefined, image_path |-> undefined, user |-> undefined,
           alias |-> undefined, user_id |-> undefined, limit |-> noLimit]

noChannel == [guild |-> 0, id |-> undefined, name |-> undefined]
noUser == [id |-> undefined, username |-> undefined]

\* A handler invocation: where it is suspended (pc: "idle" before any request,
\* the line of the await it is suspended at, "done" once it replied), the state
\* of the readiness wait it is in, and the locals that live across its awaits.
idleCall == [pc |-> "idle", name |-> "", args |-> noArgs,
             wait |-> "none", start |-> 0, due |-> 0,
             guild |-> 0, channel |-> noChannel, user |-> noUser,
             mappedId |-> undefined, chunks |-> <<>>, ci |-> 0, gi |-> 0,
             replies |-> <<>>, error |-> noError, escaped |-> FALSE]

\* What a synchronous run of the handler ends in: the frame it leaves, the
\* remote operation it issued (none when it replied or waits for readiness)
\* and USER_MAPPINGS as it leaves it.
Step(f, issue, mappings) == [frame |-> f, issue |-> issue, mappings |-> mappings]

RemoteOp(op, target, arg) == [op |-> op, target |-> target, arg |-> arg]

\* await <remote operation>: suspended at line pc.
Await(f, pc, op) == Step([f EXCEPT !.pc = pc], <<op>>, USER_MAPPINGS)

\* return { content: [{ type: "text", text }] }
Success(tpl, vals, data) == [isError |-> FALSE, tpl |-> tpl, vals |-> vals, data |-> data]

Returns(f, payload) ==
    Step([f EXCEPT !.pc = "done", !.replies = Append(@, payload)], <<>>, USER_MAPPINGS)

\* An exception leaving the handler for the transport.
Escapes(f, error) ==
    Step([f EXCEPT !.pc = "done", !.error = error, !.escaped = TRUE], <<>>, USER_MAPPINGS)

\* A handler without its catch block: the error goes on to the transport.
catch_rethrow(f, error) == Escapes(f, error)

\* catch (error): the reply is the text Error: <error.message>, with isError: true
catch(f, error) ==
    Returns([f EXCEPT !.error = error],
            [isError |-> TRUE, tpl |-> "Error: " \o error.tpl,
                 vals |-> error.vals, data |-> <<>>])

\* A throw inside the try block of the handler.
Throws(f, error) == catch(f, error)

TypeError(at, what) == Error(at, "TypeError: " \o what, <<>>)

\* waitForDiscord() returning without a look at the flag.
waitForDiscord_noGate(f, site) ==
    Step([f EXCEPT !.pc = site, !.wait = "resolved"], <<>>, USER_MAPPINGS)

\* waitForDiscord(), up to its first suspension: resolved at once when the
\* flag is set, else the first check() has armed the poll timer.
waitForDiscord(f, site) ==
    IF discordReady
    THEN Step([f EXCEPT !.pc = site, !.wait = "resolved"], <<>>, USER_MAPPINGS)
    ELSE Step([f EXCEPT !.pc = site, !.wait = "polling", !.start = now,
                        !.due = now + pollIntervalMs], <<>>, USER_MAPPINGS)

\* ------------------------------------------------------ text shaping

\* formatCodeBlock(code, language)
formatCodeBlock(code, language) ==
    <<"BACKTICK", "BACKTICK", "BACKTICK">> \o language \o <<"\n">> \o code \o <<"\n", "BACKTICK", "BACKTICK", "BACKTICK">>

\* The title line: ** title **
bold(title) == <<"*", "*">> \o title \o <<"*", "*">>

\* A value interpolated into a template literal.
str(v) == IF v = undefined THEN <<"u", "n", "d", "e", "f", "i", "n", "e", "d">> ELSE v

\* msg.match(/[\s\S]{2000}/g): full pieces only, the rest of the text lost.
RECURSIVE matchChunks_fullOnly(_)
matchChunks_fullOnly(msg) ==
    IF Len(msg) < CHUNK_LENGTH THEN <<>>
    ELSE <<SubSeq(msg, 1, CHUNK_LENGTH)>>
         \o matchChunks_fullOnly(SubSeq(msg, CHUNK_LENGTH + 1, Len(msg)))

\* msg.match(/[\s\S]{1,2000}/g) for a non-empty msg: greedy pieces, in order.
RECURSIVE matchChunks(_)
matchChunks(msg) ==
    IF Len(msg) = 0 THEN <<>>
    ELSE IF Len(msg) <= CHUNK_LENGTH THEN <<msg>>
    ELSE <<SubSeq(msg, 1, CHUNK_LENGTH)>> \o matchChunks(SubSeq(msg, CHUNK_LENGTH + 1, Len(msg)))

\* fs.existsSync(path): the files of the host.
existingPaths == {<<"/", "a">>}
\* A host on which every path exists.
existsSync_everyPath(path) == TRUE

existsSync(path) == path \in existingPaths

\* path.basename over the paths of the model.
basename(path) == IF Len(path) >= 1 /\ path[1] = "/" THEN Tail(path) ELSE path

\* args.limit || dflt, without the cap.
outboundLimit_uncapped(limit, dflt, cap) ==
    IF limit = noLimit \/ limit.n = 0 THEN dflt ELSE limit.n

\* Math.min(args.limit || dflt, cap)
outboundLimit(limit, dflt, cap) ==
    LET asked == IF limit = noLimit \/ limit.n = 0 THEN dflt ELSE limit.n
    IN IF asked < cap THEN asked ELSE cap

\* The messages left in the order of the fetch.
reverse_none(seq) == seq

\* messages.reverse(): the collection in the opposite order.
reverse(seq) == [k \in DOMAIN seq |-> seq[Len(seq) + 1 - k]]

\* ------------------------------------------------- the tool handlers

\* The work of the tool once the channel is resolved (after
\* resolveChannelWithServer returned).
withChannel(f0, channel) ==
    LET f == [f0 EXCEPT !.channel = channel]
        a == f.args
    IN CASE f.name = "discord_send_message" ->
              IF a.message = undefined THEN Throws(f, TypeError(419, "msg.length"))
              ELSE IF Len(a.message) <= MESSAGE_LENGTH_LIMIT
              THEN Await(f, "L420", RemoteOp("send", channel,
                         [content |-> a.message, files |-> <<>>, embeds |-> <<>>]))
              ELSE LET chunks == matchChunks(a.message)
                   IN Await([f EXCEPT !.chunks = chunks, !.ci = 1], "L424",
                            RemoteOp("send", channel,
                                [content |-> chunks[1], files |-> <<>>, embeds |-> <<>>]))
         [] f.name = "discord_send_code" ->
              LET language == IF truthy(a.language) THEN a.language ELSE <<>>
                  codeBlock == formatCodeBlock(str(a.code), language)
                  fullMessage == IF truthy(a.title)
                                 THEN bold(a.title) \o <<"\n">> \o codeBlock
                                 ELSE codeBlock
                  ext == IF truthy(a.language) THEN <<".">> \o a.language
                         ELSE <<".", "t", "x", "t">>
              IN IF Len(fullMessage) > CODE_LENGTH_LIMIT
                 THEN IF a.code = undefined THEN Throws(f, TypeError(450, "Buffer.from"))
                      ELSE Await(f, "L453", RemoteOp("send", channel,
                             [content |-> IF truthy(a.title) THEN bold(a.title) ELSE undefined,
                              files |-> <<[name |-> <<"c", "o", "d", "e">> \o ext,
                                           data |-> a.code]>>,
                              embeds |-> <<>>]))
                 ELSE Await(f, "L458", RemoteOp("send", channel,
                            [content |-> fullMessage, files |-> <<>>, embeds |-> <<>>]))
         [] f.name = "discord_send_file" ->
              IF ~existsSync(a.file_path)
              THEN Throws(f, Error(477, "File not found: ${filePath}", <<str(a.file_path)>>))
              ELSE Await(f, "L479", RemoteOp("send", channel,
                         [content |-> IF truthy(a.message) THEN a.message ELSE undefined,
                          files |-> <<[name |-> basename(a.file_path), data |-> a.file_path]>>,
                          embeds |-> <<>>]))
         [] f.name = "discord_send_image" ->
              IF ~existsSync(a.image_path)
              THEN Throws(f, Error(500, "Image not found: ${imgPath}", <<str(a.image_path)>>))
              ELSE Await(f, "L505", RemoteOp("send", channel,
                         [content |-> undefined,
                          files |-> <<[name |-> basename(a.image_path), data |-> a.image_path]>>,
                          embeds |-> <<[image |-> basename(a.image_path),
                                        title |-> IF truthy(a.message) THEN a.message
                                                  ELSE undefined]>>]))
         [] OTHER -> \* discord_read_messages
              Await(f, "L624", RemoteOp("messages.fetch", channel,
                    [limit |-> outboundLimit(a.limit, MESSAGES_DEFAULT_LIMIT, MESSAGES_MAX_LIMIT)]))

channelOf(guild, cache, n) == [guild |-> guild, id |-> cache[n].id, name |-> cache[n].name]

\* The first cached guild, in cache order, whose channel cache has the ID.
RECURSIVE scanGuilds(_, _)
scanGuilds(g, id) ==
    IF g > Len(guilds) THEN noChannel
    ELSE IF cacheGet(guilds[g].channels, id) # 0
    THEN channelOf(g, guilds[g].channels, cacheGet(guilds[g].channels, id))
    ELSE scanGuilds(g + 1, id)

\* resolveChannelWithServer with a resolveChannel that refreshes the channel
\* cache before it looks at it.
resolveChannelWithServer_alwaysFetch(f) ==
    LET r == resolveGuild(f.args.server)
    IN IF ~r.ok THEN Throws(f, r.error)
       ELSE IF truthy(f.args.channel)
       THEN Await([f EXCEPT !.guild = r.value], "L141",
                  RemoteOp("channels.fetch", r.value, <<>>))
       ELSE Throws([f EXCEPT !.guild = r.value],
                   Error(166, "No channel specified and no default channel set", <<>>))

\* resolveChannelWithServer looking the channel up by ID in every cached
\* guild instead of the guild resolved.
resolveChannelWithServer_anyGuild(f) ==
    LET r == resolveGuild(f.args.server)
        found == scanGuilds(1, f.args.channel)
    IN IF ~r.ok THEN Throws(f, r.error)
       ELSE IF truthy(f.args.channel) /\ found # noChannel
       THEN withChannel([f EXCEPT !.guild = r.value], found)
       ELSE Throws([f EXCEPT !.guild = r.value],
                   Error(166, "No channel specified and no default channel set", <<>>))

\* resolveChannelWithServer(args.channel, args.server), after its await of
\* waitForDiscord(), with the first phase of resolveChannel.
resolveChannelWithServer(f) ==
    LET channelArg == f.args.channel
        r == resolveGuild(f.args.server)
    IN IF ~r.ok THEN Throws(f, r.error)
       ELSE LET guild == r.value
                hit == channelLookup(channelArg, guilds[guild].channels)
            IN IF truthy(channelArg)
               THEN IF hit # 0
                    THEN withChannel([f EXCEPT !.guild = guild],
                                     channelOf(guild, guilds[guild].channels, hit))
                    ELSE Await([f EXCEPT !.guild = guild], "L141",
                               RemoteOp("channels.fetch", guild, <<>>))
               ELSE IF truthy(DEFAULT_CHANNEL_ID) /\ scanGuilds(1, DEFAULT_CHANNEL_ID) # noChannel
               THEN withChannel([f EXCEPT !.guild = guild], scanGuilds(1, DEFAULT_CHANNEL_ID))
               ELSE Throws([f EXCEPT !.guild = guild],
                           Error(166, "No channel specified and no default channel set", <<>>))

\* resolveChannel without its second phase: the refresh is awaited and then
\* the channel is reported missing.
resolveChannelRetry_none(f, cache) ==
    Throws(f, Error(149, "Channel \"${channelIdOrName}\" not found in ${guild.name}",
                    <<f.args.channel, guilds[f.guild].name>>))

\* resolveChannel after guild.channels.fetch() returned: the second phase, on
\* the refreshed cache.
resolveChannelRetry(f, cache) ==
    LET channelIdOrName == f.args.channel
        hit == channelLookup(channelIdOrName, cache)
    IN IF hit # 0 THEN withChannel(f, channelOf(f.guild, cache, hit))
       ELSE Throws(f, Error(149, "Channel \"${channelIdOrName}\" not found in ${guild.name}",
                            <<channelIdOrName, guilds[f.guild].name>>))

\* The DM channel of a user, as a send target.
dmChannelOf(user) == [guild |-> 0, id |-> user.id, name |-> undefined]

\* resolveUser line 193-206: the member search, from entry gi of
\* Object.entries(GUILDS) on.
RECURSIVE memberSearch(_, _)
memberSearch(f, gi) ==
    LET entries == ObjectEntries(GUILDS)
        nameOrId == f.args.user
    IN IF gi > Len(entries)
       THEN Throws(f, Error(206, "User \"${nameOrId}\" not found", <<nameOrId>>))
       ELSE IF cacheGet(guilds, entries[gi][2]) = 0 THEN memberSearch(f, gi + 1)
       ELSE Await([f EXCEPT !.gi = gi], "L196",
                  RemoteOp("members.fetch", cacheGet(guilds, entries[gi][2]),
                           [query |-> nameOrId, limit |-> MEMBER_QUERY_LIMIT]))

\* resolveUser(args.user), after its await of waitForDiscord().
resolveUser(f) ==
    LET nameOrId == f.args.user
        mappedId == ObjGet(USER_MAPPINGS, toLowerCase(nameOrId))
    IN IF nameOrId = undefined THEN Throws(f, TypeError(173, "nameOrId.toLowerCase"))
       ELSE IF USER_MAPPINGS = null THEN Throws(f, TypeError(173, "USER_MAPPINGS[...]"))
       ELSE IF truthy(mappedId)
       THEN Await([f EXCEPT !.mappedId = mappedId], "L176",
                  RemoteOp("users.fetch", mappedId, <<>>))
       ELSE IF isDigits(nameOrId)
       THEN Await(f, "L186", RemoteOp("users.fetch", nameOrId, <<>>))
       ELSE memberSearch(f, 1)

\* discord_send_dm sending to the user without opening the DM channel.
withUser_noCreateDM(f, user) ==
    Await([f EXCEPT !.user = user], "L533",
          RemoteOp("send", dmChannelOf(user),
                   [content |-> f.args.message, files |-> <<>>, embeds |-> <<>>]))

\* discord_send_dm once resolveUser returned the user.
withUser(f, user) ==
    Await([f EXCEPT !.user = user], "L521", RemoteOp("createDM", user.id, <<>>))

\* resolveUser giving up after the first guild without a match.
membersFetched_firstGuildOnly(f, members) ==
    LET wanted == toLowerCase(f.args.user)
        match == cacheFind({n \in DOMAIN members :
                               toLowerCase(members[n].user.username) = wanted})
    IN IF match # 0 THEN withUser(f, members[match].user)
       ELSE Throws(f, Error(206, "User \"${nameOrId}\" not found", <<f.args.user>>))

\* resolveUser after guild.members.fetch returned: the first member whose
\* username, display name or global name is the identifier, else the next guild.
membersFetched(f, members) ==
    LET wanted == toLowerCase(f.args.user)
        isMatch(m) == \/ toLowerCase(m.user.username) = wanted
                      \/ toLowerCase(m.displayName) = wanted
                      \/ (m.user.globalName # undefined
                          /\ toLowerCase(m.user.globalName) = wanted)
        match == cacheFind({n \in DOMAIN members : isMatch(members[n])})
    IN IF match # 0 THEN withUser(f, members[match].user)
       ELSE memberSearch(f, f.gi + 1)

\* discord_send_dm after user.createDM() returned.
dmCreated(f) ==
    LET a == f.args
        parts == (IF truthy(a.message) THEN <<a.message>> ELSE <<>>)
                 \o (IF truthy(a.code)
                     THEN <<formatCodeBlock(a.code,
                                IF truthy(a.language) THEN a.language ELSE <<>>)>>
                     ELSE <<>>)
        content == join(parts, <<"\n">>)
        files == IF truthy(a.file_path)
                 THEN <<[name |-> basename(a.file_path), data |-> a.file_path]>>
                 ELSE <<>>
    IN IF truthy(a.file_path) /\ ~existsSync(a.file_path)
       THEN Throws(f, Error(530, "File not found: ${args.file_path}", <<a.file_path>>))
       ELSE Await(f, "L533", RemoteOp("send", dmChannelOf(f.user),
                  [content |-> IF truthy(content) THEN content ELSE undefined,
                   files |-> files, embeds |-> <<>>]))

\* The switch of the handler, after its await of waitForDiscord().
toolSwitch(f) ==
    LET a == f.args
        r == resolveGuild(a.server)
    IN CASE f.name \in {"discord_send_message", "discord_send_code", "discord_send_file",
                        "discord_send_image", "discord_read_messages"} ->
              waitForDiscord(f, "L154")
         [] f.name = "discord_send_dm" -> waitForDiscord(f, "L171")
         [] f.name = "discord_list_channels" ->
              IF ~r.ok THEN Throws(f, r.error)
              ELSE Await([f EXCEPT !.guild = r.value], "L546",
                         RemoteOp("channels.fetch", r.value, <<>>))
         [] f.name = "discord_list_members" ->
              IF ~r.ok THEN Throws(f, r.error)
              ELSE Await([f EXCEPT !.guild = r.value], "L568",
                         RemoteOp("members.fetch", r.value,
                             [limit |-> outboundLimit(a.limit, MEMBERS_DEFAULT_LIMIT,
                                                      MEMBERS_MAX_LIMIT)]))
         [] f.name = "discord_list_servers" ->
              LET entries == ObjectEntries(GUILDS)
                  row(e) == [alias |-> e[1], id |-> e[2],
                             name |-> IF cacheGet(guilds, e[2]) # 0
                                      THEN guilds[cacheGet(guilds, e[2])].name
                                      ELSE <<"not connected">>,
                             default |-> e[1] = DEFAULT_GUILD_ALIAS]
              IN Returns(f, Success("${JSON.stringify(serverList)}", <<>>,
                                    [n \in DOMAIN entries |-> row(entries[n])]))
         [] f.name = "discord_add_user_mapping" ->
              IF a.alias = undefined THEN Throws(f, TypeError(607, "args.alias.toLowerCase"))
              ELSE IF USER_MAPPINGS = null THEN Throws(f, TypeError(607, "USER_MAPPINGS[...] ="))
              ELSE LET done == Returns(f, Success(
                                 "Mapped \"${args.alias}\" -> ${args.user_id} (session only)",
                                 <<a.alias, str(a.user_id)>>, <<>>))
                   IN Step(done.frame, <<>>,
                           ObjSet(USER_MAPPINGS, toLowerCase(a.alias), a.user_id))
         [] OTHER -> Throws(f, Error(642, "Unknown tool: ${name}", <<<<f.name>>>>))

\* The handler resumed at the await of waitForDiscord() it was suspended at:
\* the wait resolved, or it rejected with the timeout error.
afterWait(f0) ==
    LET f == [f0 EXCEPT !.wait = "none"]
    IN IF f0.wait = "rejected"
       THEN Throws(f, Error(83, "Discord client not ready (timeout)", <<>>))
       ELSE CASE f.pc = "L410" -> toolSwitch(f)
              [] f.pc = "L154" -> resolveChannelWithServer(f)
              [] OTHER -> resolveUser(f)

sentTo(what, f) ==
    Success(what \o " sent to #${channel.name} in ${channel.guild.name}",
            <<str(f.channel.name), guilds[f.channel.guild].name>>, <<>>)

\* Date.prototype.toISOString: digits of fixed width, most significant first
\* (two of them for the instants of the model).
toISOString(t) == <<digitSeq[((t \div 10) % 10) + 1], digitSeq[(t % 10) + 1]>>

\* A message of the channel as discord_read_messages reports it.
formatMessage(m) == [author |-> m.author, content |-> m.content,
                     timestamp |-> toISOString(m.createdAt),
                     attachments |-> m.attachments]

\* The handler resumed after the remote operation it awaited returned result.
afterReturn(f, result) ==
    CASE f.pc = "L141" -> resolveChannelRetry(f, result)
      [] f.pc = "L420" -> Returns(f, sentTo("Message", f))
      [] f.pc = "L424" ->
           IF f.ci < Len(f.chunks)
           THEN Await([f EXCEPT !.ci = @ + 1], "L424",
                      RemoteOp("send", f.channel,
                          [content |-> f.chunks[f.ci + 1], files |-> <<>>, embeds |-> <<>>]))
           ELSE Returns(f, sentTo("Message", f))
      [] f.pc \in {"L453", "L458"} -> Returns(f, sentTo("Code snippet", f))
      [] f.pc = "L479" -> Returns(f, sentTo("File \"${path.basename(filePath)}\"", f))
      [] f.pc = "L505" -> Returns(f, sentTo("Image \"${path.basename(imgPath)}\"", f))
      [] f.pc = "L176" -> withUser(f, result)
      [] f.pc = "L186" -> withUser(f, result)
      [] f.pc = "L196" -> membersFetched(f, result)
      [] f.pc = "L521" -> dmCreated(f)
      [] f.pc = "L533" ->
           Returns(f, Success("DM sent to ${user.username} (${user.id})",
                              <<f.user.username, f.user.id>>, <<>>))
      [] f.pc = "L546" ->
           LET keep(c) == c.isTextBased /\ ~c.isThread
               text == SelectSeq(result, keep)
           IN Returns(f, Success("Channels in ${guild.name}:\n${JSON.stringify(textChannels)}",
                                 <<guilds[f.guild].name>>,
                                 [n \in DOMAIN text |-> [id |-> text[n].id, name |-> text[n].name]]))
      [] f.pc = "L568" ->
           Returns(f, Success("Members in ${guild.name}:\n${JSON.stringify(memberList)}",
                              <<guilds[f.guild].name>>,
                              [n \in DOMAIN result |->
                                  [id |-> result[n].user.id,
                                   username |-> result[n].user.username,
                                   displayName |-> result[n].displayName,
                                   globalName |-> result[n].user.globalName]]))
      [] OTHER -> \* L624
           LET reversed == reverse(result)
           IN Returns(f, Success("${JSON.stringify(formatted)}", <<>>,
                                 [n \in DOMAIN reversed |-> formatMessage(reversed[n])]))

\* A failed fetch by the mapped ID passed over: resolveUser goes on to the
\* member search.
afterReject_bypass(f, error) ==
    IF f.pc = "L176" THEN memberSearch(f, 1) ELSE Throws(f, error)

\* A rejected send of a piece passed over: the loop of line 423 goes on to
\* the next piece.
afterReject_nextChunk(f, error) ==
    IF f.pc = "L424" THEN afterReturn(f, <<>>) ELSE Throws(f, error)

\* The handler resumed after the remote operation it awaited rejected:
\* resolveUser replaces the error of a failed users.fetch by its own.
afterReject(f, error) ==
    CASE f.pc = "L176" ->
           Throws(f, Error(178, "Mapped user \"${nameOrId}\" (ID: ${mappedId}) not found",
                           <<f.args.user, f.mappedId>>))
      [] f.pc = "L186" ->
           Throws(f, Error(188, "User with ID ${nameOrId} not found", <<f.args.user>>))
      [] OTHER -> Throws(f, error)

\* ------------------------------------------------------- the remote

\* Collection.set for each fetched channel: a cached channel is replaced in
\* place, a new one is added last.
RECURSIVE mergeChannels(_, _)
mergeChannels(cache, fetched) ==
    IF fetched = <<>> THEN cache
    ELSE LET c == Head(fetched)
             n == cacheGet(cache, c.id)
         IN mergeChannels(IF n # 0 THEN [cache EXCEPT ![n] = c] ELSE Append(cache, c),
                          Tail(fetched))

Channel(id, name, isTextBased, isThread) ==
    [id |-> id, name |-> name, isTextBased |-> isTextBased, isThread |-> isThread]
Guild(id, name, channels) == [id |-> id, name |-> name, channels |-> channels]
User(id, username, globalName) == [id |-> id, username |-> username, globalName |-> globalName]
Member(user, displayName) == [user |-> user, displayName |-> displayName]
Message(author, content, createdAt) ==
    [author |-> author, content |-> content, createdAt |-> createdAt, attachments |-> <<>>]

\* The error a rejected remote operation carries.
remoteError == Error(0, "DiscordAPIError: Missing Permissions", <<>>)

\* ------------------------------------------------------------ actions

pendingOf(i) ==
    IF \E n \in DOMAIN ops : ops[n].call = i /\ ops[n].status = "pending"
    THEN CHOOSE n \in DOMAIN ops : ops[n].call = i /\ ops[n].status = "pending"
    ELSE 0

\* The state after call i ran up to step st, the operations log being log.
Apply(i, st, log) ==
    /\ calls' = [calls EXCEPT ![i] = st.frame]
    /\ ops' = log \o [n \in DOMAIN st.issue |->
                        [call |-> i, op |-> st.issue[n].op, target |-> st.issue[n].target,
                         arg |-> st.issue[n].arg, status |-> "pending", result |-> <<>>]]
    /\ USER_MAPPINGS' = st.mappings

\* The transport hands a tools/call request to the handler (line 406-410).
\* The log keeps the operations of the invocations in flight and of the last
\* one of each request slot.
CallTool(i, name, args) ==
    /\ loadError = noError
    /\ calls[i].pc \in {"idle", "done"}
    /\ Apply(i, waitForDiscord([idleCall EXCEPT !.name = name, !.args = args], "L410"),
             SelectSeq(ops, LAMBDA o : o.call # i))
    /\ UNCHANGED <<config, loginFailed, discordReady, guilds, now>>

\* The handler continues after a settled await of waitForDiscord().
Resume(i) ==
    /\ calls[i].wait \in {"resolved", "rejected"}
    /\ Apply(i, afterWait(calls[i]), ops)
    /\ UNCHANGED <<config, loginFailed, discordReady, guilds, now>>

\* check() without the readiness branch of line 81.
Poll_ignoresReady(i) ==
    /\ calls[i].wait = "polling"
    /\ now >= calls[i].due
    /\ calls' = [calls EXCEPT ![i] =
                    IF now - @.start > timeoutMs THEN [@ EXCEPT !.wait = "rejected"]
                    ELSE [@ EXCEPT !.due = now + pollIntervalMs]]
    /\ UNCHANGED <<config, USER_MAPPINGS, loginFailed, discordReady, guilds, now, ops>>

\* check() rejecting as soon as the elapsed time reaches the timeout.
Poll_inclusive(i) ==
    /\ calls[i].wait = "polling"
    /\ now >= calls[i].due
    /\ calls' = [calls EXCEPT ![i] =
                    IF discordReady THEN [@ EXCEPT !.wait = "resolved"]
                    ELSE IF now - @.start >= timeoutMs THEN [@ EXCEPT !.wait = "rejected"]
                    ELSE [@ EXCEPT !.due = now + pollIntervalMs]]
    /\ UNCHANGED <<config, USER_MAPPINGS, loginFailed, discordReady, guilds, now, ops>>

\* The poll timer of a pending waitForDiscord() fires: check() of line 80-85.
Poll(i) ==
    /\ calls[i].wait = "polling"
    /\ now >= calls[i].due
    /\ calls' = [calls EXCEPT ![i] =
                    IF discordReady THEN [@ EXCEPT !.wait = "resolved"]
                    ELSE IF now - @.start > timeoutMs THEN [@ EXCEPT !.wait = "rejected"]
                    ELSE [@ EXCEPT !.due = now + pollIntervalMs]]
    /\ UNCHANGED <<config, USER_MAPPINGS, loginFailed, discordReady, guilds, now, ops>>

\* The ready event of the client (line 63-64); the gateway has filled the
\* guild cache by then.
Ready(cache) ==
    /\ loadError = noError
    /\ ~loginFailed
    /\ ~discordReady
    /\ discordReady' = TRUE
    /\ guilds' = cache
    /\ UNCHANGED <<config, USER_MAPPINGS, loginFailed, now, calls, ops>>

\* discord.login() rejects (a bad token, a refused connection): the catch of
\* line 71-73 logs the error; the ready event will not come.
LoginRejects ==
    /\ loadError = noError
    /\ ~loginFailed
    /\ ~discordReady
    /\ loginFailed' = TRUE
    /\ UNCHANGED <<config, USER_MAPPINGS, discordReady, guilds, now, calls, ops>>

\* Time passes.
Tick(ms) ==
    /\ now' = now + ms
    /\ UNCHANGED <<config, USER_MAPPINGS, loginFailed, discordReady, guilds, calls, ops>>

settled(log, n, status, result) == [log EXCEPT ![n].status = status, ![n].result = result]

\* The remote operation call i awaits returns result.
OpReturns(i, op, result) ==
    LET n == pendingOf(i)
    IN /\ n # 0
       /\ ops[n].op = op
       /\ Apply(i, afterReturn(calls[i], result), settled(ops, n, "ok", result))
       /\ UNCHANGED <<config, loginFailed, discordReady, now>>

\* guild.channels.fetch() returns: the fetched channels are in the cache.
ChannelsFetched(i, fetched) ==
    LET n == pendingOf(i)
        g == ops[n].target
        cache == mergeChannels(guilds[g].channels, fetched)
    IN /\ n # 0
       /\ ops[n].op = "channels.fetch"
       /\ guilds' = [guilds EXCEPT ![g].channels = cache]
       /\ OpReturns(i, "channels.fetch", cache)

\* channel.send() returns.
Sent(i) == OpReturns(i, "send", <<>>) /\ UNCHANGED guilds

\* discord.users.fetch(id) returns the user of that ID.
UserFetched(i, user) ==
    /\ pendingOf(i) # 0
    /\ ops[pendingOf(i)].op = "users.fetch"
    /\ ops[pendingOf(i)].target = user.id
    /\ OpReturns(i, "users.fetch", user)
    /\ UNCHANGED guilds

\* guild.members.fetch() returns at most limit members.
MembersFetched(i, members) ==
    /\ pendingOf(i) # 0
    /\ ops[pendingOf(i)].op = "members.fetch"
    /\ Len(members) <= ops[pendingOf(i)].arg.limit
    /\ OpReturns(i, "members.fetch", members)
    /\ UNCHANGED guilds

\* user.createDM() returns.
DMCreated(i) == OpReturns(i, "createDM", <<>>) /\ UNCHANGED guilds

\* channel.messages.fetch() returns at most limit messages, newest first.
MessagesFetched(i, messages) ==
    /\ pendingOf(i) # 0
    /\ ops[pendingOf(i)].op = "messages.fetch"
    /\ Len(messages) <= ops[pendingOf(i)].arg.limit
    /\ OpReturns(i, "messages.fetch", messages)
    /\ UNCHANGED guilds

\* The remote operation call i awaits rejects.
OpRejects(i) ==
    LET n == pendingOf(i)
    IN /\ n # 0
       /\ Apply(i, afterReject(calls[i], remoteError), settled(ops, n, "failed", <<>>))
       /\ UNCHANGED <<config, loginFailed, discordReady, guilds, now>>

\* The exception that ends the module load: with GUILDS null, Object.keys(GUILDS)
\* of line 34 throws when the legacy ID is set, else GUILDS.personal of line 39.
\* Nothing catches it, and the process exits.
loadThrows(e) ==
    IF parseOrEmpty(e.DISCORD_GUILDS) # null THEN noError
    ELSE IF truthy(e.DISCORD_GUILD_ID) THEN TypeError(34, "Object.keys(GUILDS)")
    ELSE TypeError(39, "GUILDS.personal")

\* The state after lines 20-61, with the guild cache as given; after a failed
\* load, the state in which the process exits.
Startup(e, cache, ready) ==
    /\ processEnv = e
    /\ loadError = loadThrows(e)
    /\ loginFailed = FALSE
    /\ GUILDS = IF loadThrows(e) = noError THEN loadGUILDS(e) ELSE null
    /\ DEFAULT_GUILD_ALIAS =
          IF loadThrows(e) = noError THEN loadDEFAULT_GUILD_ALIAS(loadGUILDS(e)) ELSE undefined
    /\ DEFAULT_CHANNEL_ID = loadDEFAULT_CHANNEL_ID(e)
    /\ USER_MAPPINGS = IF loadThrows(e) = noError THEN loadUSER_MAPPINGS(e) ELSE Obj(<<>>)
    /\ discordReady = (ready /\ loadThrows(e) = noError)
    /\ guilds = cache
    /\ now = 0
    /\ calls = [i \in CallIds |-> idleCall]
    /\ ops = <<>>

Env(guildsJson, legacy, defaultChannel, usersJson) ==
    [DISCORD_GUILDS |-> guildsJson, DISCORD_GUILD_ID |-> legacy,
     DISCORD_DEFAULT_CHANNEL_ID |-> defaultChannel, DISCORD_USER_MAPPINGS |-> usersJson]

\* ------------------------------------------------------------ worlds

s_1 == <<"1">>
s_2 == <<"2">>
s_10 == <<"1", "0">>
s_home == <<"H", "o", "m", "e">>
s_general == <<"g", "e", "n", "e", "r", "a", "l">>
s_js == <<"j", "s">>
s_T == <<"T">>
s_work == <<"w", "o", "r", "k">>
s_office == <<"O", "f", "f", "i", "c", "e">>
s_Work == <<"W", "o", "r", "k">>
s_strasse == <<"s", "t", "r", "a", "sz", "e">>
s_Default == <<"D", "e", "f", "a", "u", "l", "t">>
s_5 == <<"5">>
s_club == <<"C", "l", "u", "b">>
s_nope == <<"n", "o", "p", "e">>
s_bob == <<"b", "o", "b">>
s_Bob == <<"B", "o", "b">>
s_carol == <<"c", "a", "r", "o", "l">>
s_Carol == <<"C", "a", "r", "o", "l">>
s_zed == <<"z", "e", "d">>
s_fresh == <<"f", "r", "e", "s", "h">>
s_nochan == <<"n", "o", "c", "h", "a", "n">>
s_voice == <<"v", "o", "i", "c", "e">>
s_hi == <<"h", "i">>
s_x == <<"x">>
s_3 == <<"3">>
s_7 == <<"7">>
s_8 == <<"8">>
s_99 == <<"9", "9">>
s_11 == <<"1", "1">>
s_12 == <<"1", "2">>
s_13 == <<"1", "3">>
s_14 == <<"1", "4">>
s_hashOps == <<"#", "o", "p", "s">>
s_ann == <<"a", "n", "n">>
s_hashGeneral == <<"#", "G", "e", "n", "e", "r", "a", "l">>
s_missing == <<"/", "m", "i", "s", "s", "i", "n", "g">>
s_a == <<"/", "a">>

\* One guild, aliased personal, whose channel general is the default channel.
homeGuilds == JsonText("{\"personal\":\"1\"}", TRUE, Obj(<<<<personal, s_1>>>>))
homeEnv == Env(homeGuilds, undefined, s_10, unset)
homeCache == <<Guild(s_1, s_home, <<Channel(s_10, s_general, TRUE, FALSE)>>)>>

\* A text of n characters whose content varies with the position.
text(n) == [k \in 1..n |-> digitSeq[(k % 7) + 1]]

\* -------------------------------------- specification: outbound text

\* The largest number of full chunks in a message of the model.
MaxFullChunks == 2

MessageLengths ==
    {0, 1} \cup {k * CHUNK_LENGTH + d : k \in 1..MaxFullChunks, d \in {-1, 0, 1}}

\* The code lengths around which the fenced rendering crosses the limit.
CodeLengths == {1} \cup {CODE_LENGTH_LIMIT - k : k \in 7..16}

TextCalls ==
    {[name |-> "discord_send_message", args |-> [noArgs EXCEPT !.message = text(n)]]
        : n \in MessageLengths}
    \cup
    {[name |-> "discord_send_code",
      args |-> [noArgs EXCEPT !.code = text(n), !.language = l, !.title = t]]
        : n \in CodeLengths, l \in {undefined, <<>>, s_js}, t \in {undefined, <<>>, s_T}}
    \cup
    {[name |-> "discord_send_dm", args |-> [noArgs EXCEPT !.user = s_7, !.message = text(n)]]
        : n \in {MESSAGE_LENGTH_LIMIT, MESSAGE_LENGTH_LIMIT + 1}}

InitText == Startup(homeEnv, homeCache, TRUE)

NextText ==
    \/ \E c \in TextCalls : CallTool(1, c.name, c.args)
    \/ Resume(1)
    \/ Sent(1)
    \/ UserFetched(1, User(s_7, s_bob, undefined))
    \/ DMCreated(1)
    \/ OpRejects(1)

SpecText == InitText /\ [][NextText]_vars

\* ------------------------------------------ specification: dispatcher

\* Two aliases, the second for a guild the bot is not in; one mapped user; the
\* default channel general of the guild Home. The guild Club is in no alias.
mainGuilds == JsonText("{\"personal\":\"1\",\"work\":\"2\"}", TRUE,
                       Obj(<<<<personal, s_1>>, <<s_work, s_2>>>>))
mainUsers == JsonText("{\"bob\":\"7\"}", TRUE, Obj(<<<<s_bob, s_7>>>>))
mainEnv == Env(mainGuilds, undefined, s_10, mainUsers)
c_general == Channel(s_10, s_general, TRUE, FALSE)
c_fresh == Channel(s_11, s_fresh, TRUE, FALSE)
c_voice == Channel(s_12, s_voice, FALSE, FALSE)
mainCache == <<Guild(s_1, s_home, <<c_general, c_voice>>),
               Guild(s_3, s_club, <<Channel(s_13, s_general, TRUE, FALSE),
                                    Channel(s_14, s_hashOps, TRUE, TRUE)>>)>>
\* The same guilds before the gateway delivered any channel.
bareCache == <<Guild(s_1, s_home, <<>>), Guild(s_3, s_club, <<>>)>>

\* What the remote may answer.
RemoteChannelLists == {<<c_general, c_voice>>, <<c_general, c_voice, c_fresh>>}
u_bob == User(s_7, s_bob, undefined)
u_carol == User(s_8, s_carol, s_Carol)
RemoteUsers == {u_bob, u_carol}
MemberResults == {<<>>, <<Member(u_bob, s_Bob), Member(u_carol, s_carol)>>}
m_old == Message(s_ann, s_hi, 1)
m_new == Message(s_bob, s_x, 2)
MessageResults == {<<>>, <<m_new, m_old>>}

Servers == {undefined, personal, s_work, s_club, s_nope}
Channels == {undefined, s_10, s_general, s_hashGeneral, s_fresh, s_nochan}

Call(name, args) == [name |-> name, args |-> args]

MainCalls ==
    {Call("discord_send_message", [noArgs EXCEPT !.message = s_hi, !.channel = c, !.server = sv])
        : c \in Channels, sv \in Servers}
    \cup {Call("discord_send_message", noArgs)}
    \cup {Call("discord_send_message",
                [noArgs EXCEPT !.message = text(MESSAGE_LENGTH_LIMIT + 1), !.channel = s_general])}
    \cup {Call("discord_send_code", [noArgs EXCEPT !.code = s_x, !.language = l])
        : l \in {undefined, s_js}}
    \cup {Call("discord_send_file", [noArgs EXCEPT !.file_path = fp])
        : fp \in {undefined, s_a, s_missing}}
    \cup {Call("discord_send_image", [noArgs EXCEPT !.image_path = fp, !.channel = s_nochan])
        : fp \in {s_a, s_missing}}
    \cup {Call("discord_send_image", [noArgs EXCEPT !.image_path = fp])
        : fp \in {s_a, s_missing}}
    \cup {Call("discord_send_dm", [noArgs EXCEPT !.user = u, !.message = s_hi, !.file_path = fp])
        : u \in {undefined, s_Bob, s_7, s_99, s_carol, s_zed, protoKey},
          fp \in {undefined, s_missing}}
    \cup {Call("discord_list_channels", [noArgs EXCEPT !.server = sv]) : sv \in Servers}
    \cup {Call("discord_list_members", [noArgs EXCEPT !.server = sv]) : sv \in Servers}
    \cup {Call("discord_list_servers", noArgs)}
    \cup {Call("discord_add_user_mapping", [noArgs EXCEPT !.alias = k, !.user_id = v])
        : k \in {s_Bob, protoKey}, v \in {s_8, <<>>}}
    \cup {Call("discord_add_user_mapping", noArgs)}
    \cup {Call("discord_read_messages", [noArgs EXCEPT !.channel = c])
        : c \in {undefined, s_general, s_nochan}}
    \cup {Call("discord_read_messages", [noArgs EXCEPT !.channel = s_hashOps, !.server = s_club])}
    \cup {Call("discord_unknown", noArgs)}

\* The clock of this specification moves in steps of TickMs, MaxTicks times.
TickMs == 7500
MaxTicks == 3

Init == Startup(mainEnv, <<>>, FALSE)

Next ==
    \/ \E c \in MainCalls : CallTool(1, c.name, c.args)
    \/ Resume(1)
    \/ Poll(1)
    \/ \E cache \in {mainCache, bareCache} : Ready(cache)
    \/ LoginRejects
    \/ (now < MaxTicks * TickMs /\ Tick(TickMs))
    \/ \E fetched \in RemoteChannelLists : ChannelsFetched(1, fetched)
    \/ Sent(1)
    \/ \E u \in RemoteUsers : UserFetched(1, u)
    \/ \E members \in MemberResults : MembersFetched(1, members)
    \/ DMCreated(1)
    \/ \E messages \in MessageResults : MessagesFetched(1, messages)
    \/ OpRejects(1)

Spec == Init /\ [][Next]_vars

\* ------------------------------------- specification: concurrent calls

\* Add user mapping and send DM requests that meet on the key bob, on the
\* key __proto__ or on no key.
RaceCalls ==
    {Call("discord_add_user_mapping", [noArgs EXCEPT !.alias = k, !.user_id = v])
        : k \in {s_Bob, toUpperCase(s_bob), protoKey}, v \in {s_8, s_99}}
    \cup {Call("discord_send_dm", [noArgs EXCEPT !.user = u, !.message = s_hi])
            : u \in {s_bob, s_8, s_carol}}

\* Both request slots take requests at any time; every await of a handler is
\* a point at which the other handler may run.
NextRace ==
    \/ \E i \in CallIds, c \in RaceCalls : CallTool(i, c.name, c.args)
    \/ \E i \in CallIds : Resume(i)
    \/ \E i \in CallIds, user \in RemoteUsers : UserFetched(i, user)
    \/ \E i \in CallIds, members \in MemberResults : MembersFetched(i, members)
    \/ \E i \in CallIds : DMCreated(i)
    \/ \E i \in CallIds : Sent(i)
    \/ \E i \in CallIds : OpRejects(i)

SpecRace == Startup(mainEnv, mainCache, TRUE) /\ [][NextRace]_vars

\* ------------------------------------- specification: readiness gate

\* The ten tools of the ListTools reply.
Tools == {"discord_send_message", "discord_send_code", "discord_send_file",
          "discord_send_image", "discord_send_dm", "discord_list_channels",
          "discord_list_members", "discord_list_servers", "discord_add_user_mapping",
          "discord_read_messages"}

\* Arguments with which each tool, once past the gate, goes on to the remote
\* or to the mapping table.
gateArgs == [noArgs EXCEPT !.channel = s_general, !.message = s_hi, !.code = s_x,
                           !.file_path = s_a, !.image_path = s_a, !.user = s_7,
                           !.alias = s_carol, !.user_id = s_8]

\* The clock: a poll timer that is due fires before the clock moves on, and
\* the clock of this specification moves while a wait is polling.
TickGate ==
    /\ \E i \in CallIds : calls[i].wait = "polling"
    /\ \A i \in CallIds : calls[i].wait = "polling" => now < calls[i].due
    /\ Tick(TickMs)

\* Requests come in up to the time MaxTicks * TickMs, for any tool on the
\* first slot and for send message on the second; the remote, when asked at
\* all, refuses.
NextGate ==
    \/ \E t \in Tools : now <= MaxTicks * TickMs /\ CallTool(1, t, gateArgs)
    \/ now <= MaxTicks * TickMs /\ CallTool(2, "discord_send_message", gateArgs)
    \/ \E i \in CallIds : Resume(i)
    \/ \E i \in CallIds : Poll(i)
    \/ Ready(mainCache)
    \/ LoginRejects
    \/ TickGate
    \/ \E i \in CallIds : OpRejects(i)

\* The event loop runs every poll timer that is due and the continuation of
\* every rejected wait, and time passes while a wait is polling.
SpecGate ==
    /\ Init /\ [][NextGate]_vars
    /\ WF_vars(TickGate)
    /\ \A i \in CallIds : WF_vars(Poll(i)) /\ WF_vars(calls[i].wait = "rejected" /\ Resume(i))

\* ------------------------------------------- specification: servers

\* The registries: the one of the dispatcher; a key configured with an
\* upper-case letter; a key with a sharp s; none at all; the legacy single
\* guild.
workGuilds == JsonText("{\"Work\":\"2\"}", TRUE, Obj(<<<<s_Work, s_2>>>>))
strasseGuilds == JsonText("{\"stra(sz)e\":\"1\"}", TRUE, Obj(<<<<s_strasse, s_1>>>>))
RouteEnvs == {mainEnv,
              Env(workGuilds, undefined, undefined, unset),
              Env(strasseGuilds, undefined, undefined, unset),
              Env(unset, undefined, undefined, unset),
              Env(unset, s_1, undefined, unset),
              Env(JsonText("{", FALSE, Obj(<<>>)), s_1, undefined, JsonText("{", FALSE, Obj(<<>>))),
              Env(JsonText("{\"home\":\"1\",\"7\":\"2\"}", TRUE,
                           Obj(<<<<toLowerCase(s_home), s_1>>, <<s_7, s_2>>>>)),
                  undefined, undefined, unset),
              Env(JsonText("null", TRUE, null), undefined, undefined, unset),
              Env(JsonText("null", TRUE, null), s_1, undefined, unset),
              Env(unset, undefined, undefined, JsonText("null", TRUE, null)),
              Env(unset, s_1, undefined,
                  JsonText("{\"Bob\":\"7\"}", TRUE, Obj(<<<<s_Bob, s_7>>>>)))}

\* The guild caches the ready event may leave.
RouteCaches == {<<>>,
                mainCache,
                <<Guild(s_2, s_office, <<c_general>>), Guild(s_1, s_home, <<>>)>>,
                <<Guild(s_5, s_Default, <<>>), Guild(s_1, s_Work, <<>>)>>}

RouteServers == {undefined, <<>>, personal, toUpperCase(personal), s_work, s_Work,
                 toUpperCase(s_work), s_strasse, toUpperCase(s_strasse), default,
                 s_1, s_nope}

RouteCalls ==
    {Call(name, [noArgs EXCEPT !.server = sv])
        : name \in {"discord_list_members", "discord_list_channels"}, sv \in RouteServers}
    \cup {Call("discord_send_dm", [noArgs EXCEPT !.user = u, !.message = s_hi])
            : u \in {s_Carol, s_zed}}

InitRoute == \E env \in RouteEnvs, cache \in RouteCaches : Startup(env, cache, TRUE)

NextRoute ==
    \/ \E c \in RouteCalls : CallTool(1, c.name, c.args)
    \/ Resume(1)
    \/ \E fetched \in RemoteChannelLists : ChannelsFetched(1, fetched)
    \/ \E members \in MemberResults : MembersFetched(1, members)
    \/ DMCreated(1)
    \/ Sent(1)
    \/ OpRejects(1)

SpecRoute == InitRoute /\ [][NextRoute]_vars

\* --------------------------------------------- specification: lists

\* The most messages the remote holds in a channel.
MaxMessages == 3

\* The n newest messages of the channel, newest first.
history(n) ==
    [k \in 1..n |-> Message(IF k % 2 = 0 THEN s_ann ELSE s_bob, <<digitSeq[k + 1]>>,
                            MaxMessages + 1 - k)]

Limits == {noLimit} \cup {[n |-> k] : k \in {-1, 0, 1, 2, 3, 10, 49, 50, 51, 99, 100, 101, 500}}

ListCalls ==
    {Call("discord_list_members", [noArgs EXCEPT !.limit = l]) : l \in Limits}
    \cup {Call("discord_read_messages", [noArgs EXCEPT !.channel = s_general, !.limit = l])
            : l \in Limits}

InitLists == Startup(mainEnv, mainCache, TRUE)

NextLists ==
    \/ \E c \in ListCalls : CallTool(1, c.name, c.args)
    \/ Resume(1)
    \/ \E members \in MemberResults : MembersFetched(1, members)
    \/ \E n \in 0..MaxMessages : MessagesFetched(1, history(n))
    \/ OpRejects(1)

SpecLists == InitLists /\ [][NextLists]_vars

\* ------------------------------------------------------------ claims

sendsOf(i) == SelectSeq(ops, LAMBDA o : o.call = i /\ o.op = "send")
contentsOf(i) == [n \in DOMAIN sendsOf(i) |-> sendsOf(i)[n].arg.content]
repliedOk(i) ==
    calls[i].pc = "done" /\ Len(calls[i].replies) = 1 /\ ~calls[i].replies[1].isError
repliedError(i) ==
    calls[i].pc = "done" /\ Len(calls[i].replies) = 1 /\ calls[i].replies[1].isError
isPrefix(s, t) == Len(s) <= Len(t) /\ SubSeq(t, 1, Len(s)) = s

\* C1: dispatch. No exception leaves the handler for the transport, whatever
\* the tool, the arguments and the outcome of the remote operations: an
\* invocation has replied exactly once when it is over and not at all before,
\* its reply is a success payload or a payload tagged isError that carries the
\* message of the error caught, and an invocation that is not over is
\* suspended on the readiness wait or on exactly one remote operation.
C1_DispatchNeverEscapes ==
    \A i \in CallIds :
        LET f == calls[i]
            pending == {n \in DOMAIN ops : ops[n].call = i /\ ops[n].status = "pending"}
        IN /\ ~f.escaped
           /\ f.pc = "idle" => f.replies = <<>>
           /\ f.pc = "done" =>
                /\ Len(f.replies) = 1
                /\ pending = {}
                /\ f.wait = "none"
                /\ f.replies[1].isError <=> f.error # noError
                /\ f.replies[1].isError =>
                     /\ f.replies[1].tpl = "Error: " \o f.error.tpl
                     /\ f.replies[1].vals = f.error.vals
           /\ f.pc \notin {"idle", "done"} =>
                /\ f.replies = <<>>
                /\ f.error = noError
                /\ IF f.wait = "none" THEN Cardinality(pending) = 1 ELSE pending = {}

\* The send of a send message invocation was rejected by the remote and the
\* invocation ended in an error reply that carries the error of the remote.
C1_Witness ==
    /\ repliedError(1)
    /\ calls[1].name = "discord_send_message"
    /\ calls[1].error = remoteError
    /\ \E n \in DOMAIN ops : ops[n].call = 1 /\ ops[n].op = "send" /\ ops[n].status = "failed"

\* C2: send message. Once the channel is resolved, a message of at most 2000
\* characters has exactly one send call, which carries the message. A longer
\* message is sent in pieces of 1 to 2000 characters, a piece only after the
\* send of the piece before it returned; the pieces sent so far are always a
\* prefix of the message, and when the invocation replies with success there
\* are at least two (as many as 2000 goes into the length, rounded up) and put
\* together in send order they are the message.
C2_SendMessageChunks ==
    \A i \in CallIds :
        LET f == calls[i]
            msg == f.args.message
            S == sendsOf(i)
        IN (f.name = "discord_send_message" /\ msg # undefined /\ f.channel # noChannel) =>
            /\ \A n \in DOMAIN S : n < Len(S) => S[n].status = "ok"
            /\ \A n \in DOMAIN S : S[n].arg.files = <<>> /\ S[n].target = f.channel
            /\ isPrefix(Flatten(contentsOf(i)), msg)
            /\ Len(msg) <= 2000 => Len(S) = 1 /\ S[1].arg.content = msg
            /\ Len(msg) >= 2001 =>
                /\ \A n \in DOMAIN S : Len(S[n].arg.content) \in 1..2000
                /\ repliedOk(i) =>
                    /\ Len(S) >= 2
                    /\ Len(S) = (Len(msg) + 1999) \div 2000
                    /\ Flatten(contentsOf(i)) = msg

\* A message of exactly 2001 characters was sent: two sends, then the reply.
C2_Witness ==
    /\ calls[1].name = "discord_send_message"
    /\ Len(calls[1].args.message) = 2001
    /\ repliedOk(1)
    /\ Len(sendsOf(1)) = 2
    /\ Len(sendsOf(1)[2].arg.content) = 1

\* The fenced rendering of the code of a send code request, as the claim
\* words it: three grave accents, the language tag, a line break, the code, a
\* line break, three grave accents; under a title line in bold when a title
\* is given.
C3_rendering(a) ==
    LET fence == <<"BACKTICK", "BACKTICK", "BACKTICK">>
        tag == IF a.language = undefined THEN <<>> ELSE a.language
        block == fence \o tag \o <<"\n">> \o a.code \o <<"\n">> \o fence
    IN IF a.title = undefined \/ a.title = <<>> THEN block
       ELSE <<"*", "*">> \o a.title \o <<"*", "*", "\n">> \o block

C3_fileName(a) ==
    <<"c", "o", "d", "e", ".">>
    \o (IF a.language = undefined \/ a.language = <<>> THEN <<"t", "x", "t">> ELSE a.language)

\* C3: send code. Once the channel is resolved there is exactly one send call.
\* When the rendering is longer than 2000 characters it carries exactly one
\* file, named code.<language> (code.txt without a language), holding the whole
\* code, and its text is not the code; otherwise it carries the rendering as
\* plain text and no file.
C3_SendCodeAttachment ==
    \A i \in CallIds :
        LET f == calls[i]
            a == f.args
            S == sendsOf(i)
        IN (f.name = "discord_send_code" /\ a.code # undefined /\ f.channel # noChannel) =>
            /\ Len(S) = 1
            /\ IF Len(C3_rendering(a)) > 2000
               THEN /\ Len(S[1].arg.files) = 1
                    /\ S[1].arg.files[1].name = C3_fileName(a)
                    /\ S[1].arg.files[1].data = a.code
                    /\ S[1].arg.content \in {undefined, <<"*", "*">> \o a.title \o <<"*", "*">>}
               ELSE /\ S[1].arg.files = <<>>
                    /\ S[1].arg.content = C3_rendering(a)

\* A code whose rendering is 2001 characters long went out as the file code.js.
C3_Witness ==
    /\ calls[1].name = "discord_send_code"
    /\ Len(C3_rendering(calls[1].args)) = 2001
    /\ calls[1].args.language = s_js
    /\ repliedOk(1)
    /\ Len(sendsOf(1)) = 1
    /\ sendsOf(1)[1].arg.files[1].name = <<"c", "o", "d", "e", ".", "j", "s">>

\* The identifiers that equal K up to letter case, among those of the model.
C4_variants(K) == {K, toLowerCase(K), toUpperCase(K)}

\* C4: add user alias. Once an add user alias call with key K and user ID V
\* replied with success, resolveUser of every K2 that is K up to letter case
\* fetches the user by the ID V, at line 176, and DMs the user fetched.
C4_AddThenResolve ==
    \A i \in CallIds :
        LET f == calls[i]
        IN (f.name = "discord_add_user_mapping" /\ repliedOk(i)) =>
            \A K2 \in C4_variants(f.args.alias) :
                LET st == resolveUser([idleCall EXCEPT !.name = "discord_send_dm",
                                                       !.args.user = K2])
                IN /\ st.frame.pc = "L176"
                   /\ st.issue = <<RemoteOp("users.fetch", f.args.user_id, <<>>)>>
                   /\ \A u \in RemoteUsers :
                        u.id = f.args.user_id => afterReturn(st.frame, u).frame.user = u

\* What resolveGuild ends in: the ID of the guild it returns, or that it throws.
C5_outcome(r) == IF r.ok THEN guilds[r.value].id ELSE <<"throws">>

\* Invocation i is a list members or list channels invocation that has called
\* resolveGuild(args.server), and what that call ended in.
C5_resolved(i) ==
    /\ calls[i].name \in {"discord_list_members", "discord_list_channels"}
    /\ calls[i].pc \notin {"idle", "L410"}
    /\ calls[i].error.at # 83
C5_result(i) ==
    IF calls[i].guild # 0 THEN guilds[calls[i].guild].id ELSE <<"throws">>

\* C5, as stated: for every key A of GUILDS, resolveGuild(A) and resolveGuild of
\* the upper-cased A end the same way, in the invocations that name either.
C5_UpperCasedAlias ==
    \A i \in CallIds : \A n \in DOMAIN GUILDS.props :
        LET A == GUILDS.props[n][1]
        IN (C5_resolved(i) /\ calls[i].args.server \in {A, toUpperCase(A)}) =>
            /\ C5_result(i) = C5_outcome(resolveGuild(A))
            /\ C5_result(i) = C5_outcome(resolveGuild(toUpperCase(A)))

\* C5, amended: for every key A of GUILDS whose upper-casing lower-cases to
\* what A lower-cases to, resolveGuild(A) and resolveGuild of the upper-cased A
\* end the same way, in the invocations that name either: the same guild, or
\* both throw.
C5_UpperCasedAliasRoundTrip ==
    \A i \in CallIds : \A n \in DOMAIN GUILDS.props :
        LET A == GUILDS.props[n][1]
        IN (/\ toLowerCase(toUpperCase(A)) = toLowerCase(A)
            /\ C5_resolved(i)
            /\ calls[i].args.server \in {A, toUpperCase(A)}) =>
            /\ C5_result(i) = C5_outcome(resolveGuild(A))
            /\ C5_result(i) = C5_outcome(resolveGuild(toUpperCase(A)))

\* list members for the server PERSONAL fetches the members of the guild that
\* the key personal resolves to.
C5_Witness ==
    /\ calls[1].name = "discord_list_members"
    /\ calls[1].args.server = toUpperCase(personal)
    /\ calls[1].pc = "L568"
    /\ ObjGet(GUILDS, personal) = s_1
    /\ resolveGuild(personal).ok
    /\ ops[pendingOf(1)].target = resolveGuild(personal).value

\* C6, as stated: resolveGuild() without an argument, in the invocations that
\* name no server, ends the way resolveGuild of the default alias ends.
C6_NoArgumentIsDefaultAlias ==
    \A i \in CallIds :
        (C5_resolved(i) /\ calls[i].args.server = undefined) =>
            C5_result(i) = C5_outcome(resolveGuild(DEFAULT_GUILD_ALIAS))

\* The channels of a refreshed cache that the argument names: by ID, or by
\* name (a leading # dropped, letter case ignored) when text-based.
C7_named(cache, arg) ==
    LET name == IF arg # <<>> /\ Head(arg) = "#" THEN Tail(arg) ELSE arg
    IN {n \in DOMAIN cache :
           \/ cache[n].id = arg
           \/ cache[n].isTextBased /\ toLowerCase(cache[n].name) = toLowerCase(name)}

C7_fetches(i) == SelectSeq(ops, LAMBDA o : o.call = i /\ o.op = "channels.fetch")

\* C7: resolveChannel. When the refresh of line 141 returned and the refreshed
\* cache holds a channel the argument names, the invocation has that channel
\* resolved, without a channel not found error and with that one refresh only.
C7_RefreshThenFound ==
    \A i \in CallIds :
        LET f == calls[i]
            F == C7_fetches(i)
        IN (f.name # "discord_list_channels" /\ F # <<>> /\ F[1].status = "ok") =>
            /\ Len(F) = 1
            /\ C7_named(F[1].result, f.args.channel) # {} =>
                 /\ f.channel.guild = F[1].target
                 /\ \E n \in C7_named(F[1].result, f.args.channel) :
                        f.channel.id = F[1].result[n].id
                 /\ f.error.at # 149

\* The channel fresh, which only the refresh brought into the cache, got the
\* message of the invocation that asked for it.
C7_Witness ==
    /\ calls[1].name = "discord_send_message"
    /\ calls[1].args.channel = s_fresh
    /\ repliedOk(1)
    /\ Len(C7_fetches(1)) = 1
    /\ calls[1].channel.id = s_11
    /\ sendsOf(1)[1].target.id = s_11

C8_fetched(i) ==
    SelectSeq(ops, LAMBDA o : o.call = i /\ o.op = "messages.fetch" /\ o.status = "ok")

\* C8: read messages. The records of a successful reply are the fetched
\* messages, each once, in the opposite order: record k is the message at
\* place k from the end of the fetch result, so that for a fetch result
\* that is newest first the timestamps of the records ascend.
C8_OldestFirst ==
    \A i \in CallIds :
        (calls[i].name = "discord_read_messages" /\ repliedOk(i)) =>
            LET R == C8_fetched(i)[1].result
                D == calls[i].replies[1].data
            IN /\ Len(C8_fetched(i)) = 1
               /\ Len(D) = Len(R)
               /\ \A k \in DOMAIN D :
                    /\ D[k].author = R[Len(R) + 1 - k].author
                    /\ D[k].content = R[Len(R) + 1 - k].content
                    /\ D[k].timestamp = toISOString(R[Len(R) + 1 - k].createdAt)
               /\ (\A j, k \in DOMAIN R : j < k => R[j].createdAt > R[k].createdAt) =>
                    \A j, k \in DOMAIN D : j < k => lexLess(D[j].timestamp, D[k].timestamp)

\* Three messages came back newest first and were reported oldest first.
C8_Witness ==
    /\ calls[1].name = "discord_read_messages"
    /\ repliedOk(1)
    /\ Len(calls[1].replies[1].data) = 3
    /\ C8_fetched(1)[1].result[1].createdAt = 3
    /\ calls[1].replies[1].data[1].timestamp = toISOString(1)
    /\ calls[1].replies[1].data[3].timestamp = toISOString(3)

C9_serverTools == {"discord_send_message", "discord_send_code", "discord_send_file",
                   "discord_send_image", "discord_read_messages",
                   "discord_list_channels", "discord_list_members"}

\* The server argument is no key of GUILDS, no ID and no name of a cached guild.
C9_matchesNothing(server) ==
    /\ \A n \in DOMAIN GUILDS.props : GUILDS.props[n][1] # toLowerCase(server)
    /\ \A n \in DOMAIN guilds :
          guilds[n].id # server /\ toLowerCase(guilds[n].name) # toLowerCase(server)

C9_names(reply, identifier) == \E n \in DOMAIN reply.vals : reply.vals[n] = identifier

C10_min(a, b) == IF a < b THEN a ELSE b

\* The limit as the claim states it, and as amended.
C10_asStated(limit, dflt, cap) ==
    IF limit = noLimit THEN dflt ELSE C10_min(limit.n, cap)
C10_amended(limit, dflt, cap) ==
    IF limit = noLimit \/ limit.n = 0 THEN dflt ELSE C10_min(limit.n, cap)

\* C10, as stated: the limit of the fetch is min(limit, cap), and the default
\* when no limit is given.
C10_OutboundLimitAsStated ==
    \A n \in DOMAIN ops :
        LET f == calls[ops[n].call]
        IN /\ (f.name = "discord_list_members" /\ ops[n].op = "members.fetch") =>
                ops[n].arg.limit = C10_asStated(f.args.limit, 50, 100)
           /\ ops[n].op = "messages.fetch" =>
                ops[n].arg.limit = C10_asStated(f.args.limit, 10, 50)

\* C10, amended: the limit of the fetch is the default (50 for list members,
\* 10 for read messages) when no limit or the limit 0 is given, and else the
\* lesser of the limit given and the cap (100 for list members, 50 for read
\* messages); it is never above the cap.
C10_OutboundLimit ==
    \A n \in DOMAIN ops :
        LET f == calls[ops[n].call]
        IN /\ (f.name = "discord_list_members" /\ ops[n].op = "members.fetch") =>
                /\ ops[n].arg.limit = C10_amended(f.args.limit, 50, 100)
                /\ ops[n].arg.limit <= 100
           /\ ops[n].op = "messages.fetch" =>
                /\ ops[n].arg.limit = C10_amended(f.args.limit, 10, 50)
                /\ ops[n].arg.limit <= 50

\* list members with the limit 500 fetched with the limit 100 and replied.
C10_Witness ==
    /\ calls[1].name = "discord_list_members"
    /\ calls[1].args.limit = [n |-> 500]
    /\ repliedOk(1)
    /\ \E n \in DOMAIN ops : ops[n].op = "members.fetch" /\ ops[n].arg.limit = 100

\* Invocation i has replied with the readiness timeout error.
C11_timedOut(i) ==
    /\ repliedError(i)
    /\ calls[i].error.at = 83
    /\ calls[i].replies[1].tpl = "Error: Discord client not ready (timeout)"

\* C11: the ready event never comes. As long as the client is not ready, no
\* remote operation has been issued, and an invocation that is over has
\* replied with the readiness timeout error and did so more than timeoutMs
\* after it came in; every invocation that waits at line 410, whatever the
\* tool, eventually replies with that error unless the client becomes ready.
C11_NoReadyTimesOut ==
    /\ [](~discordReady =>
            /\ ops = <<>>
            /\ \A i \in CallIds :
                  calls[i].pc = "done" =>
                      C11_timedOut(i) /\ now - calls[i].start > timeoutMs)
    /\ \A i \in CallIds :
          (calls[i].pc = "L410") ~> (C11_timedOut(i) \/ discordReady)

\* After a rejected login a list members request was answered with the
\* timeout error, and a request that came in after that timeout had elapsed
\* was accepted on the other slot and answered the same way.
C11_Witness ==
    /\ loginFailed
    /\ calls[1].name = "discord_list_members"
    /\ C11_timedOut(1)
    /\ calls[2].name = "discord_send_message"
    /\ C11_timedOut(2)
    /\ calls[2].start > calls[1].start + 15000

C12_channelTools == {"discord_send_message", "discord_send_code", "discord_send_file",
                     "discord_send_image", "discord_read_messages"}

\* C12: the default channel. An invocation of a channel tool that is past the
\* readiness waits of line 410 and 154 and was given no channel, while DISCORD_CHANNEL_ID is set and
\* is the ID of a cached channel of some cached guild, has that channel as its
\* channel, whatever its server argument.
C12_DefaultChannelAnyTarget ==
    \A i \in CallIds :
        LET f == calls[i]
        IN (/\ f.name \in C12_channelTools
            /\ f.pc \notin {"idle", "L410", "L154"}
            /\ f.error.at # 83
            /\ ~truthy(f.args.channel)
            /\ truthy(DEFAULT_CHANNEL_ID)
            /\ scanGuilds(1, DEFAULT_CHANNEL_ID) # noChannel)
           => f.channel = scanGuilds(1, DEFAULT_CHANNEL_ID)

\* The remote operations of invocation i, by kind, in the order issued.
C13_kinds(i) ==
    LET mine == SelectSeq(ops, LAMBDA o : o.call = i)
    IN [n \in DOMAIN mine |-> mine[n].op]

C13_times(n, kind) == [k \in 1..n |-> kind]

\* The sequences of operations of a successful invocation of the tool.
C13_expected(f) ==
    LET refresh == {<<>>, <<"channels.fetch">>}
        one(kind) == {r \o <<kind>> : r \in refresh}
    IN CASE f.name \in {"discord_list_servers", "discord_add_user_mapping"} -> {<<>>}
         [] f.name = "discord_list_channels" -> {<<"channels.fetch">>}
         [] f.name = "discord_list_members" -> {<<"members.fetch">>}
         [] f.name = "discord_read_messages" -> one("messages.fetch")
         [] f.name = "discord_send_message" ->
              IF Len(f.args.message) <= 2000 THEN one("send")
              ELSE {r \o C13_times((Len(f.args.message) + 1999) \div 2000, "send")
                       : r \in refresh}
         [] f.name = "discord_send_dm" ->
              {lookup \o <<"createDM", "send">>
                  : lookup \in {<<"users.fetch">>}
                       \cup {C13_times(n, "members.fetch") : n \in 1..Len(guilds)}}
         [] OTHER -> one("send")

\* C13 as stated: a successful invocation performed exactly one remote
\* operation.
C13_ExactlyOneOperation ==
    \A i \in CallIds : repliedOk(i) => Len(C13_kinds(i)) = 1

\* C13: the remote operations of a successful invocation all returned, and
\* they are: none for list servers and add user mapping; one channels.fetch
\* for list channels; one members.fetch for list members; for the channel
\* tools at most one channels.fetch and then one messages.fetch (read
\* messages), one send (send code, send file, send image, send message up to
\* 2000 characters) or one send per piece of 2000 (longer messages); for send
\* DM one users.fetch or one members.fetch per guild searched, then createDM,
\* then one send.
C13_OperationsPerTool ==
    \A i \in CallIds :
        repliedOk(i) =>
            /\ C13_kinds(i) \in C13_expected(calls[i])
            /\ \A n \in DOMAIN ops : ops[n].call = i => ops[n].status = "ok"

\* A direct message to a user found by ID went out: lookup, createDM, send.
C13_Witness ==
    /\ repliedOk(1)
    /\ calls[1].name = "discord_send_dm"
    /\ C13_kinds(1) = <<"users.fetch", "createDM", "send">>

\* The payload is no alias-to-ID object: not set, no JSON, or JSON of another
\* shape.
C14_malformed(payload) ==
    payload.text = "" \/ ~payload.parses \/ payload.value.type # "object"

\* The map the claim says is loaded from the payload.
C14_soft(payload) == IF C14_malformed(payload) THEN Obj(<<>>) ELSE payload.value

\* C14: startup fails soft. Whatever the payloads, the module loads; the user
\* mappings are the object of the payload, and the empty map for a payload
\* that is none; the guild registry likewise, with the legacy guild ID as its
\* one entry, under "default", exactly when it would be empty otherwise.
C14_StartupFailsSoft ==
    LET soft == C14_soft(processEnv.DISCORD_GUILDS)
        legacy == processEnv.DISCORD_GUILD_ID
    IN /\ loadError = noError
       /\ USER_MAPPINGS = C14_soft(processEnv.DISCORD_USER_MAPPINGS)
       /\ GUILDS = IF soft = Obj(<<>>) /\ truthy(legacy)
                   THEN Obj(<<<<default, legacy>>>>)
                   ELSE soft

\* C15: the default alias. In a module that loaded, DEFAULT_GUILD_ALIAS is
\* "personal" when GUILDS has an entry of that key, else the key of the entry
\* that comes first in the configuration text, and "default" only for a
\* registry without entries.
C15_DefaultAliasIsFirstInserted ==
    loadError = noError =>
        DEFAULT_GUILD_ALIAS =
            IF \E n \in DOMAIN GUILDS.props : GUILDS.props[n][1] = personal THEN personal
            ELSE IF GUILDS.props # <<>> THEN GUILDS.props[1][1]
            ELSE default

C16_textTools == {"discord_send_message", "discord_send_code", "discord_send_dm"}

\* C16: the content of a send. No send issued by send message, send code or
\* send DM carries a content of more than 2000 characters.
C16_NoOversizeContent ==
    \A n \in DOMAIN ops :
        (ops[n].op = "send" /\ calls[ops[n].call].name \in C16_textTools)
            => Len(ops[n].arg.content) <= MESSAGE_LENGTH_LIMIT

\* C17: the readiness wait. A wait issued while the client is ready is
\* resolved at once and one issued before is polling; a step of a polling
\* wait resolves it when the client is ready, rejects it when the client is
\* not and more than timeoutMs have passed since the wait began, and leaves
\* it polling otherwise; every polling wait eventually stops polling, and is
\* resolved once the client is ready, however many waits are polling.
C17_WaitSettles ==
    /\ [][\A i \in CallIds :
            /\ (calls[i].pc \in {"idle", "done"} /\ calls'[i].pc = "L410")
                   => calls'[i].wait = IF discordReady THEN "resolved" ELSE "polling"
            /\ (calls[i].wait = "polling" /\ calls'[i] # calls[i])
                   => calls'[i].wait =
                         IF discordReady THEN "resolved"
                         ELSE IF now - calls[i].start > timeoutMs THEN "rejected"
                         ELSE "polling"]_vars
    /\ \A i \in CallIds : (calls[i].wait = "polling") ~> (calls[i].wait # "polling")
    /\ \A i \in CallIds :
          (discordReady /\ calls[i].wait = "polling") ~> (calls[i].wait = "resolved")

\* Two waits that were polling at the same time are both resolved.
C17_Witness ==
    \A i \in CallIds :
        /\ calls[i].pc = "L410"
        /\ calls[i].wait = "resolved"
        /\ calls[i].due > calls[i].start

\* Invocation i has not gone past the await of line 410, or it is over with
\* the rejection of that await.
C18_atGate(f) ==
    /\ f.pc \in {"idle", "L410", "done"}
    /\ f.pc = "done" => f.error.at = 83
    /\ f.guild = 0 /\ f.channel = noChannel /\ f.user = noUser

\* C18: readiness comes first. While the client is not ready no remote
\* operation has been issued, USER_MAPPINGS is as loaded and no invocation
\* has gone past the await of line 410 or resolved a guild, a channel or a
\* user; and every step that issues an operation, changes USER_MAPPINGS or
\* takes an invocation past that await is taken with the client ready.
C18_ReadinessFirst ==
    /\ [](~discordReady =>
            /\ ops = <<>>
            /\ USER_MAPPINGS = loadUSER_MAPPINGS(processEnv)
            /\ \A i \in CallIds : C18_atGate(calls[i]))
    /\ [][(\/ \E n \in DOMAIN ops' :
                 ops'[n].status = "pending" /\ (n \notin DOMAIN ops \/ ops[n] # ops'[n])
           \/ USER_MAPPINGS' # USER_MAPPINGS
           \/ \E i \in CallIds : C18_atGate(calls[i]) /\ ~C18_atGate(calls'[i]))
              => discordReady /\ discordReady']_vars

\* An invocation that had to poll for readiness went on, once the client was
\* ready, to issue its remote operation.
C18_Witness ==
    /\ calls[1].due > calls[1].start
    /\ calls[1].pc \notin {"idle", "L410", "done"}
    /\ \E n \in DOMAIN ops : ops[n].call = 1 /\ ops[n].status = "pending"

\* The entries of GUILDS whose key is the identifier, letter case aside.
C19_entries(server) ==
    {n \in DOMAIN GUILDS.props : toLowerCase(GUILDS.props[n][1]) = toLowerCase(server)}

\* C19: an alias of an absent guild. An invocation of list members or list
\* channels that is past line 410 and whose server argument is, letter case
\* aside, a key of GUILDS whose ID is not in the guild cache, has failed with
\* the error of line 107, which carries the argument and the ID, and has
\* resolved no guild and issued no operation.
C19_AliasOfAbsentGuildFails ==
    \A i \in CallIds :
        LET f == calls[i]
            entries == C19_entries(f.args.server)
        IN (/\ f.name \in {"discord_list_members", "discord_list_channels"}
            /\ f.pc \notin {"idle", "L410"}
            /\ truthy(f.args.server)
            /\ entries # {}
            /\ \A n \in entries : cacheGet(guilds, GUILDS.props[n][2]) = 0)
           => /\ repliedError(i)
              /\ f.error.at = 107
              /\ \E n \in entries : f.error.vals = <<f.args.server, GUILDS.props[n][2]>>
              /\ f.guild = 0
              /\ \A n \in DOMAIN ops : ops[n].call # i

\* The guild, by its place in the cache, that the three strategies in the
\* order alias, raw ID, name give for the identifier; 0 for a failure. An
\* alias is a key of GUILDS, letter case aside.
C20_expected(server) ==
    LET entries == C19_entries(server)
        named == {n \in DOMAIN guilds : toLowerCase(guilds[n].name) = toLowerCase(server)}
    IN IF entries # {}
       THEN cacheGet(guilds, GUILDS.props[CHOOSE n \in entries : TRUE][2])
       ELSE IF isDigits(server) THEN cacheGet(guilds, server)
       ELSE IF named # {} THEN CHOOSE n \in named : \A m \in named : n <= m
       ELSE 0

\* C20: the order of the strategies. An invocation of list members or list
\* channels that has called resolveGuild with a server argument has the
\* guild of the alias when the argument is an alias whose guild is cached,
\* the guild of that ID when it is no alias, all digits and the ID of a
\* cached guild, and, when it is no alias and not all digits, the first
\* cached guild of that name, letter case aside, or else the failure of
\* line 122.
C20_AliasThenIdThenName ==
    \A i \in CallIds :
        LET f == calls[i]
            server == f.args.server
            isAlias == C19_entries(server) # {}
        IN (C5_resolved(i) /\ truthy(server)) =>
              /\ C20_expected(server) # 0 => f.guild = C20_expected(server)
              /\ (C20_expected(server) = 0 /\ ~isAlias /\ ~isDigits(server))
                    => f.guild = 0 /\ f.error.at = 122

\* C21: the channel is of the guild resolved. An invocation of a channel tool
\* that was given a channel and has resolved it holds the guild that
\* resolveGuild gives for its server argument, and its channel is a channel
\* of the channel cache of that guild, whatever the other guilds hold.
C21_ChannelOfResolvedGuild ==
    \A i \in CallIds :
        LET f == calls[i]
        IN (/\ f.name \in C12_channelTools
            /\ truthy(f.args.channel)
            /\ f.channel # noChannel)
           => /\ resolveGuild(f.args.server) = Ok(f.guild)
              /\ f.channel.guild = f.guild
              /\ \E n \in DOMAIN guilds[f.guild].channels :
                    /\ guilds[f.guild].channels[n].id = f.channel.id
                    /\ guilds[f.guild].channels[n].name = f.channel.name

\* The message for the channel general of the guild Club went to channel 13
\* of that guild, while the guild before it in the cache has a channel
\* general too, of ID 10.
C21_Witness ==
    /\ repliedOk(1)
    /\ calls[1].name = "discord_send_message"
    /\ calls[1].args.channel = s_general /\ calls[1].args.server = s_club
    /\ guilds[calls[1].guild].id = s_3 /\ calls[1].channel.id = s_13
    /\ cacheGet(guilds[1].channels, s_10) # 0
    /\ \E n \in DOMAIN ops : ops[n].op = "send" /\ ops[n].target.id = s_13

\* C22: no channel specified. An invocation of a channel tool that has run
\* resolveChannelWithServer has failed with the error of line 166 exactly
\* when its server argument resolves, it was given no channel and
\* DISCORD_DEFAULT_CHANNEL_ID is not set; and then it issued no operation.
C22_NoChannelSpecified ==
    \A i \in CallIds :
        LET f == calls[i]
        IN (/\ f.name \in C12_channelTools
            /\ f.pc \notin {"idle", "L410", "L154"}
            /\ f.error.at # 83)
           => /\ f.error.at = 166 <=> /\ resolveGuild(f.args.server).ok
                                       /\ ~truthy(f.args.channel)
                                       /\ ~truthy(DEFAULT_CHANNEL_ID)
              /\ f.error.at = 166 => \A n \in DOMAIN ops : ops[n].call # i

\* C23: the refresh of the channel cache. An invocation has issued at most
\* one guild.channels.fetch(), and the step that issues it is taken with a
\* channel argument that neither the ID lookup nor the name lookup finds in
\* the channel cache of the guild resolved.
C23_RefreshOnlyOnMiss ==
    /\ [](\A i \in CallIds : Len(C7_fetches(i)) <= 1)
    /\ [][\A i \in CallIds :
            (\E n \in DOMAIN ops' :
                /\ ops'[n].call = i /\ ops'[n].op = "channels.fetch"
                /\ ops'[n].status = "pending"
                /\ (n \notin DOMAIN ops \/ ops[n] # ops'[n]))
            => /\ calls'[i].name \in C9_serverTools
               /\ calls'[i].guild # 0
               /\ calls'[i].name # "discord_list_channels" =>
                     /\ truthy(calls'[i].args.channel)
                     /\ channelLookup(calls'[i].args.channel,
                                      guilds[calls'[i].guild].channels) = 0]_vars

\* A message for #General went out to the cached channel general without a
\* refresh of the channel cache.
C23_Witness ==
    /\ repliedOk(1)
    /\ calls[1].name = "discord_send_message"
    /\ calls[1].args.channel = s_hashGeneral
    /\ calls[1].channel.name = s_general
    /\ C7_fetches(1) = <<>>
    /\ sendsOf(1) # <<>>

\* The channel, by its place in the cache, that one phase gives for the
\* identifier when the ID is tried first and then the name, a text-based
\* channel whose name is, letter case aside, the identifier as given or the
\* identifier without one leading #; 0 for a miss.
C24_lookup(cache, arg) ==
    LET names == {toLowerCase(arg),
                  toLowerCase(IF arg # <<>> /\ Head(arg) = "#" THEN Tail(arg) ELSE arg)}
    IN IF cacheGet(cache, arg) # 0 THEN cacheGet(cache, arg)
       ELSE cacheFind({n \in DOMAIN cache :
                          cache[n].isTextBased /\ toLowerCase(cache[n].name) \in names})

\* C24: the lookups of one phase. An invocation of a channel tool that holds
\* a guild and was given a channel holds, as long as it has not refreshed
\* the channel cache, the channel that the ID lookup and then the name lookup
\* give, and it has a refresh pending only when they give none.
C24_IdThenName ==
    \A i \in CallIds :
        LET f == calls[i]
            cache == guilds[f.guild].channels
            hit == C24_lookup(cache, f.args.channel)
        IN (/\ f.name \in C12_channelTools
            /\ f.guild # 0
            /\ truthy(f.args.channel))
           => /\ (C7_fetches(i) = <<>> /\ f.channel # noChannel) =>
                    /\ hit # 0
                    /\ f.channel.id = cache[hit].id
                    /\ cache[hit].id # f.args.channel => cache[hit].isTextBased
              /\ (pendingOf(i) # 0 /\ ops[pendingOf(i)].op = "channels.fetch") => hit = 0

C26_searches(i) == SelectSeq(ops, LAMBDA o : o.call = i /\ o.op = "members.fetch")

\* The cached guilds of the registry, by their place in the cache, in the
\* order of Object.entries(GUILDS).
C26_order ==
    LET entries == ObjectEntries(GUILDS)
        cached == SelectSeq(entries, LAMBDA e : cacheGet(guilds, e[2]) # 0)
    IN [n \in DOMAIN cached |-> cacheGet(guilds, cached[n][2])]

\* The members of a search result that the identifier names.
C26_matches(members, nameOrId) ==
    {n \in DOMAIN members :
        toLowerCase(nameOrId) \in {toLowerCase(members[n].user.username),
                                   toLowerCase(members[n].displayName),
                                   toLowerCase(members[n].user.globalName)}}

C27_KeysLowerCased ==
    \A n \in DOMAIN USER_MAPPINGS.props :
        USER_MAPPINGS.props[n][1] = toLowerCase(USER_MAPPINGS.props[n][1])

\* The entries of the object under another key than k.
C28_others(o, k) == {o.props[n] : n \in {m \in DOMAIN o.props : o.props[m][1] # k}}

\* C28: the frame of the tools. No step changes GUILDS or
\* DEFAULT_GUILD_ALIAS; a step that changes USER_MAPPINGS is the step of an
\* add user mapping invocation that replies with success, and it changes
\* the entry under the lower-cased alias, to the ID given, and no other; and
\* no step takes discordReady from true to false.
C28_Frame ==
    [][/\ GUILDS' = GUILDS
       /\ DEFAULT_GUILD_ALIAS' = DEFAULT_GUILD_ALIAS
       /\ USER_MAPPINGS' # USER_MAPPINGS =>
             \E i \in CallIds :
                LET k == toLowerCase(calls[i].args.alias)
                IN /\ calls[i].name = "discord_add_user_mapping"
                   /\ calls[i].pc = "L410"
                   /\ calls'[i].pc = "done"
                   /\ ~calls'[i].replies[1].isError
                   /\ C28_others(USER_MAPPINGS', k) = C28_others(USER_MAPPINGS, k)
                   /\ ObjGet(USER_MAPPINGS', k) = calls[i].args.user_id
       /\ discordReady => discordReady']_vars

\* An add user mapping invocation for Bob replied with success, and
\* USER_MAPPINGS holds 8 under bob, where the configuration has 7.
C28_Witness ==
    /\ repliedOk(1)
    /\ calls[1].name = "discord_add_user_mapping"
    /\ calls[1].args.alias = s_Bob
    /\ ObjGet(loadUSER_MAPPINGS(processEnv), s_bob) = s_7
    /\ USER_MAPPINGS = Obj(<<<<s_bob, s_8>>>>)
    /\ GUILDS = loadGUILDS(processEnv)
    /\ discordReady

\* The step in which add user mapping invocation i runs its case and replies.
C29_adds(i) ==
    /\ calls[i].name = "discord_add_user_mapping"
    /\ calls[i].pc = "L410"
    /\ calls'[i].pc = "done"
    /\ ~calls'[i].replies[1].isError

\* C29: concurrent add user mapping and send DM. In every interleaving of
\* the two request slots, the step of a successful add leaves the ID given
\* under the lower-cased alias and the other entries as they were; no other
\* step changes USER_MAPPINGS, so that a key holds the ID of the add that ran
\* last on it; and the step in which resolveUser reads the table takes the
\* value the table holds for the lower-cased identifier at that step, which
\* is what it fetches.
C29_NoLostUpdate ==
    [][/\ \A i \in CallIds :
            /\ C29_adds(i) =>
                  LET k == toLowerCase(calls[i].args.alias)
                  IN /\ ObjGet(USER_MAPPINGS', k) = calls[i].args.user_id
                     /\ C28_others(USER_MAPPINGS', k) = C28_others(USER_MAPPINGS, k)
            /\ (calls[i].name = "discord_send_dm" /\ calls[i].pc = "L171"
                                                  /\ calls'[i].pc = "L176") =>
                  /\ calls'[i].mappedId = ObjGet(USER_MAPPINGS, toLowerCase(calls[i].args.user))
                  /\ ops'[Len(ops')].call = i
                  /\ ops'[Len(ops')].target = calls'[i].mappedId
       /\ USER_MAPPINGS' # USER_MAPPINGS => \E i \in CallIds : C29_adds(i)]_vars


\* The path argument of invocation i that names a local file: image_path for
\* discord_send_image, file_path for discord_send_file and discord_send_dm.
C30_path(i) ==
    IF calls[i].name = "discord_send_image" THEN calls[i].args.image_path
    ELSE calls[i].args.file_path

\* The invocations that were given a local path that does not exist.
C30_missing(i) ==
    /\ calls[i].name \in {"discord_send_file", "discord_send_image", "discord_send_dm"}
    /\ truthy(C30_path(i))
    /\ C30_path(i) \notin existingPaths

\* The line of the existence check of the tool of invocation i.
C30_line(i) ==
    IF calls[i].name = "discord_send_file" THEN 477
    ELSE IF calls[i].name = "discord_send_image" THEN 500 ELSE 530

\* Invocation i got as far as its existence check: its channel is resolved,
\* or, for a DM, its DM channel is open.
C30_checked(i) ==
    IF calls[i].name = "discord_send_dm"
    THEN \E n \in DOMAIN ops :
            ops[n].call = i /\ ops[n].op = "createDM" /\ ops[n].status = "ok"
    ELSE calls[i].channel # noChannel

\* C30 as stated: an invocation given a path that does not exist replies with
\* the not-found error naming the path, and issues no send.
C30_MissingPathReplies ==
    \A i \in CallIds :
        C30_missing(i) =>
            /\ sendsOf(i) = <<>>
            /\ calls[i].pc = "done" =>
                  /\ repliedError(i)
                  /\ calls[i].error.at = C30_line(i)
                  /\ calls[i].error.vals = <<C30_path(i)>>

\* C30, amended: an invocation given a path that does not exist never issues
\* a send and ends with an error reply; once its channel is resolved (for a
\* DM, once its DM channel is open) that reply is the not-found error of its
\* tool, naming the path.  Before that point the reply is the error of the
\* step that failed first.
C30_MissingPathNeverSends ==
    \A i \in CallIds :
        C30_missing(i) =>
            /\ sendsOf(i) = <<>>
            /\ calls[i].pc = "done" => repliedError(i)
            /\ C30_checked(i) =>
                  /\ repliedError(i)
                  /\ calls[i].error.at = C30_line(i)
                  /\ calls[i].error.vals = <<C30_path(i)>>
                  /\ calls[i].replies[1].vals = <<C30_path(i)>>

\* A DM with an attachment path that does not exist opened the DM channel,
\* then failed with the error of line 530 naming the path, and sent nothing.
C30_Witness ==
    /\ calls[1].name = "discord_send_dm"
    /\ C30_missing(1)
    /\ C30_checked(1)
    /\ repliedError(1)
    /\ calls[1].error.at = 530
    /\ calls[1].error.vals = <<s_missing>>
    /\ sendsOf(1) = <<>>


\* The sends of invocation i that were rejected, by position among its sends.
C31_failedAt(i) == {k \in DOMAIN sendsOf(i) : sendsOf(i)[k].status = "failed"}

\* C31: chunked send message. When the send of piece k of a message longer
\* than 2000 characters is rejected, the invocation has issued exactly k
\* sends, which carry the pieces 1..k of the message in order; the sends of
\* the pieces 1..k-1 returned, so the pieces delivered are a strict prefix of
\* the pieces of the message; no later piece is sent and piece k is not sent
\* again; and the reply is tagged isError and carries the error of the send.
C31_ChunkFailureStops ==
    \A i \in CallIds :
        LET f == calls[i]
            msg == f.args.message
            S == sendsOf(i)
            chunks == matchChunks(msg)
        IN (f.name = "discord_send_message" /\ msg # undefined
                /\ Len(msg) > MESSAGE_LENGTH_LIMIT) =>
            \A k \in C31_failedAt(i) :
                /\ Len(S) = k
                /\ k <= Len(chunks)
                /\ contentsOf(i) = SubSeq(chunks, 1, k)
                /\ \A n \in 1..(k - 1) : S[n].status = "ok"
                /\ repliedError(i)
                /\ f.error = remoteError
                /\ f.replies[1].tpl = "Error: " \o remoteError.tpl

\* A message of three pieces whose second send was rejected: the first piece
\* is delivered, the third was never sent, and the reply is the error.
C31_Witness ==
    /\ calls[1].name = "discord_send_message"
    /\ Len(matchChunks(calls[1].args.message)) = 3
    /\ C31_failedAt(1) = {2}
    /\ Len(sendsOf(1)) = 2
    /\ sendsOf(1)[1].status = "ok"
    /\ repliedError(1)

=============================================================================
